--------------------------- MODULE Spec2Model ---------------------------
(***************************************************************************)
(* A model of ChronoGo: the replayer (pkg/replay/replay.go, BasicReplayer) *)
(* with the event grammar its concurrency tracking parses, the breakpoint  *)
(* manager and the CLI commands that drive the replayer (pkg/debugger),    *)
(* and the recorders (pkg/recorder) with the producer threads that emit    *)
(* into them through pkg/instrumentation; the security envelope and the    *)
(* secure file recorder built on it, the selective instrumentation filter  *)
(* with the hooks it gates, and the tracing integrator that numbers        *)
(* goroutines, channels and mutexes.                                       *)
(*                                                                         *)
(* A string (an event's Details, a breakpoint location, a line of the log  *)
(* file) is modelled as the sequence of its tokens (words, punctuation,    *)
(* decimal digits), so that fmt.Sprintf, strings.Contains, fmt.Sscanf,     *)
(* strconv.Atoi, json.Marshal and json.Unmarshal are computed and not      *)
(* assumed.                                                                *)
(***************************************************************************)
EXTENDS Integers, Sequences, FiniteSets, TLC

VARIABLES
    events,           \* BasicReplayer.events
    currentIdx,       \* BasicReplayer.currentIdx
    goroutines,       \* BasicReplayer.goroutines : id -> GoroutineState
    channels,         \* BasicReplayer.channels   : id -> ChannelState
    activeGoroutine,  \* BasicReplayer.activeGoroutine
    breakpoints,      \* BreakpointManager.breakpoints
    nextID,           \* BreakpointManager.nextID
    last,             \* the last API call: its name, argument and results
    SnapshotInterval, \* recorder.SnapshotInterval (package variable)
    globalRecorder,   \* instrumentation.globalRecorder: which recorder is shared
    inMemory,         \* InMemoryRecorder.events
    disk,             \* the bytes of the file at the recorder's path
    fr,               \* FileRecorder: file, writer, bufWriter, compressionType,
                      \* eventCount
    clock,            \* time.Now().UnixNano()
    producers,        \* each producer thread: where it is in its emitter call
    recorded,         \* the events whose RecordEvent has returned nil, in the
                      \* order of return (since the last Clear)
    got,              \* what the last GetEvents returned (since the last Clear)
    envelope,         \* a SecureEvent in a client's hands: the event and the
                      \* options it was made from, and what was done to it
    sfr,              \* SecureFileRecorder: the fields of fr and securityOpts
    written,          \* the lines the secure recorder wrote (since the last
                      \* Clear), as it wrote them, how often a line of the
                      \* file was changed since, and which line
    CurrentOptions,   \* instrumentation.CurrentOptions (package variable)
    call,             \* a ShouldInstrument call in progress: where it is and
                      \* what it has read of CurrentOptions
    assign,           \* a SetInstrumentationOptions call in progress: its
                      \* argument and the fields it has yet to store
    traceInt,         \* instrumentation.traceInt: the three maps and the
                      \* three next-id counters
    tracers,          \* each thread in the tracing integrator: where it is
                      \* in its call and what it has read
    debugger          \* CLI.debugger: "nil" in a replay-only session,
                      \* "delve" when a live adapter is attached

vars == <<events, currentIdx, goroutines, channels, activeGoroutine,
          breakpoints, nextID, last, SnapshotInterval, globalRecorder,
          inMemory, disk, fr, clock, producers, recorded, got, envelope, sfr,
          written, CurrentOptions, call, assign, traceInt, tracers,
          debugger>>

\* The variables of the selective filter and of the tracing integrator.
filterVars == <<CurrentOptions, call, assign>>

traceVars == <<traceInt, tracers>>

hookVars == <<filterVars, traceVars>>

\* The variables of the security envelope and the secure recorder.
securityVars == <<envelope, sfr, written>>

recorderVars == <<SnapshotInterval, globalRecorder, inMemory, disk, fr, clock,
                  producers, recorded, got>>

replayerVars == <<events, currentIdx, goroutines, channels, activeGoroutine>>

managerVars == <<breakpoints, nextID>>

-----------------------------------------------------------------------------
(* Bounds *)

\* Longest event list handed to LoadEvents.
MaxLen == 2

\* Most breakpoints and watchpoints a debugging session asks for.
MaxBreakpoints == 2

\* Most events recorded to one file between two Clears.
MaxRecords == 3

\* Events each producer thread emits.
MaxEmits == 1

\* Last reading of the nanosecond clock.
MaxClock == 2

\* Most changes made to one SecureEvent, or to one line of a file.
MaxTampers == 2

\* Most events recorded to one secure recorder between two Clears.
MaxSecureRecords == 2

\* The last line of a file that is changed.
MaxTamperedLine == 1

-----------------------------------------------------------------------------
(* recorder.EventType (events.go, iota) *)

FuncEntry == 0
FuncExit == 1
VarAssignment == 2
GoroutineSwitch == 3
StatementExecution == 4
ChannelOperation == 5
SyncOperation == 6
SnapshotEvent == 7

-----------------------------------------------------------------------------
(* Text: numerals, formatting, searching, scanning *)

\* The decimal numerals the model's identifiers are printed with (%d).
Numerals == <<"0", "1", "2", "3", "4", "5", "6", "7", "8", "9">>

\* fmt's %d verb on output: the numeral of n.
Itoa(n) == Numerals[n + 1]

\* Whether token t is a decimal numeral, as %d accepts on input.
IsNumeral(t) == \E n \in 1..Len(Numerals) : Numerals[n] = t

\* fmt's %d verb on input: the value of numeral t.
Atoi(t) == (CHOOSE n \in 1..Len(Numerals) : Numerals[n] = t) - 1

\* strings.Contains(s, sub) on token sequences.
Contains(s, sub) ==
    \E i \in 1..(Len(s) - Len(sub) + 1) :
        \A j \in 1..Len(sub) : s[i + j - 1] = sub[j]

\* fmt.Sscanf(input, format, ...): the format's tokens are matched in order
\* against the input's; "%d" scans a numeral.  The scan stops with an error at
\* the first token that does not match or is missing; input left over after
\* the format is exhausted is not an error.  vals are the numbers scanned.
RECURSIVE SscanfFrom(_, _, _, _)
SscanfFrom(input, format, i, vals) ==
    IF i > Len(format) THEN [err |-> FALSE, vals |-> vals]
    ELSE IF i > Len(input) THEN [err |-> TRUE, vals |-> vals]
    ELSE IF format[i] = "%d"
         THEN IF IsNumeral(input[i])
              THEN SscanfFrom(input, format, i + 1, Append(vals, Atoi(input[i])))
              ELSE [err |-> TRUE, vals |-> vals]
         ELSE IF input[i] = format[i]
              THEN SscanfFrom(input, format, i + 1, vals)
              ELSE [err |-> TRUE, vals |-> vals]

Sscanf(input, format) == SscanfFrom(input, format, 1, <<>>)

-----------------------------------------------------------------------------
(* The durable grammar: what the instrumentation surface writes to Details *)

FmtGoroutineCreated == <<"Goroutine", "%d", "created">>
FmtGoroutineSwitch == <<"Goroutine", "switch", "from", "%d", "to", "%d">>
FmtChannelSend == <<"Channel", "%d", ":", "send", "by", "goroutine", "%d">>
FmtChannelRecv == <<"Channel", "%d", ":", "receive", "by", "goroutine", "%d">>
FmtChannelClose == <<"Channel", "%d", ":", "closed", "by", "goroutine", "%d">>

\* recorder.Event; ID and Timestamp are only printed by the replayer and are
\* left out.  File, Line and FuncName are Go's zero values when not set.
Event(type, details, file, line, funcName) ==
    [Type |-> type, Details |-> details,
     File |-> file, Line |-> line, FuncName |-> funcName]

\* instrumentation.GoroutineCreate
GoroutineCreateEvent(gID) ==
    Event(GoroutineSwitch, <<"Goroutine", Itoa(gID), "created">>, "", 0, "")

\* instrumentation.GoroutineSwitch
GoroutineSwitchEvent(fromID, toID) ==
    Event(GoroutineSwitch,
          <<"Goroutine", "switch", "from", Itoa(fromID), "to", Itoa(toID)>>,
          "", 0, "")

\* instrumentation.ChannelSend; value is the %v rendering of the value sent.
ChannelSendEvent(chID, senderID, value) ==
    Event(ChannelOperation,
          <<"Channel", Itoa(chID), ":", "send", "by", "goroutine",
            Itoa(senderID), ",", "value", ":">> \o value,
          "", 0, "")

\* instrumentation.ChannelRecv
ChannelRecvEvent(chID, receiverID, value) ==
    Event(ChannelOperation,
          <<"Channel", Itoa(chID), ":", "receive", "by", "goroutine",
            Itoa(receiverID), ",", "value", ":">> \o value,
          "", 0, "")

\* instrumentation.ChannelClose
ChannelCloseEvent(chID, goroutineID) ==
    Event(ChannelOperation,
          <<"Channel", Itoa(chID), ":", "closed", "by", "goroutine",
            Itoa(goroutineID)>>,
          "", 0, "")

\* instrumentation.FuncEntry
FuncEntryEvent(funcName, file, line) ==
    Event(FuncEntry,
          <<"Entering", funcName, "at", file, ":", Itoa(line)>>,
          file, line, funcName)

-----------------------------------------------------------------------------
(* Inputs: the events a log may hold *)

\* Goroutine and channel identifiers that occur in the logs.
GoroutineIds == {1, 2}
ChannelIds == {1}

\* %v renderings of the values sent over channels: a number, and a string
\* that happens to read "send by".
Values == {<<"3">>, <<"send", "by">>}

\* Events whose Details do not follow the grammar: a GoroutineSwitch that
\* mentions "created" / "switch from" without the numbers.
MalformedEvents ==
    {Event(GoroutineSwitch, <<"Goroutine", "created">>, "", 0, ""),
     Event(GoroutineSwitch, <<"Goroutine", "switch", "from", "main">>, "", 0, "")}

Vocabulary ==
    {GoroutineCreateEvent(2)}
    \cup {GoroutineSwitchEvent(a, b) : a \in GoroutineIds, b \in GoroutineIds}
    \cup {ChannelSendEvent(c, 1, <<"3">>) : c \in ChannelIds}
    \cup {ChannelRecvEvent(c, 2, v) : c \in ChannelIds, v \in Values}
    \cup {ChannelCloseEvent(c, 1) : c \in ChannelIds}
    \cup MalformedEvents
    \cup {FuncEntryEvent("main", "main.go", 3)}

\* All event lists of length at most n over S.
SeqsUpTo(S, n) == UNION {[1..k -> S] : k \in 0..n}

EventLists == SeqsUpTo(Vocabulary, MaxLen)

\* The logs loaded over a session that already holds events: the empty log and
\* the logs of one event.
ReloadLists == SeqsUpTo(Vocabulary, 1)

\* The arguments of LoadEvents for a replayer that holds evs.
LoadArgs(evs) == IF Len(evs) = 0 THEN EventLists ELSE ReloadLists

\* Index arguments callers may pass: every valid index and some on both sides.
IdxArgs == (-1)..(MaxLen + 1)

\* The substrings the replayer searches Details for, and the formats it scans
\* them with.
Needles ==
    {<<"created">>, <<"switch", "from">>, <<"send", "by">>,
     <<"receive", "by">>, <<"closed", "by">>}

Formats ==
    {FmtGoroutineCreated, FmtGoroutineSwitch, FmtChannelSend, FmtChannelRecv,
     FmtChannelClose}

\* Contains and Sscanf on the Details of the vocabulary, computed once.
ContainsTable ==
    [d \in {e.Details : e \in Vocabulary} |->
        [sub \in Needles |-> Contains(d, sub)]]

SscanfTable ==
    [d \in {e.Details : e \in Vocabulary} |->
        [format \in Formats |-> Sscanf(d, format)]]

DetailsContains(details, sub) == ContainsTable[details][sub]

DetailsSscanf(details, format) == SscanfTable[details][format]

-----------------------------------------------------------------------------
(* Breakpoint manager (pkg/debugger/breakpoints.go) and the predicate the   *)
(* CLI's continue command builds from it (pkg/debugger/cli.go).  Strings    *)
(* are token sequences, as Details are: a colon, a slash and each decimal   *)
(* digit of a line number are tokens of their own.                          *)

\* BreakpointType (iota)
LocationBreakpoint == 0
FunctionBreakpoint == 1
EventTypeBreakpoint == 2
WatchpointRead == 3
WatchpointWrite == 4
WatchpointReadWrite == 5

\* EventType.String()
EventTypeString(t) ==
    CASE t = FuncEntry -> <<"FunctionEntry">>
      [] t = FuncExit -> <<"FunctionExit">>
      [] t = VarAssignment -> <<"VariableAssignment">>
      [] t = GoroutineSwitch -> <<"GoroutineSwitch">>
      [] t = StatementExecution -> <<"StatementExecution">>
      [] t = ChannelOperation -> <<"ChannelOperation">>
      [] t = SyncOperation -> <<"SyncOperation">>
      [] t = SnapshotEvent -> <<"SnapshotEvent">>
      [] OTHER -> <<"Unknown">>

\* strings.HasPrefix
HasPrefix(s, prefix) ==
    Len(s) >= Len(prefix) /\ SubSeq(s, 1, Len(prefix)) = prefix

\* strings.TrimPrefix
TrimPrefix(s, prefix) ==
    IF HasPrefix(s, prefix) THEN SubSeq(s, Len(prefix) + 1, Len(s)) ELSE s

\* strings.LastIndex(s, tok), an index of Go (from 0); -1 when tok is absent.
LastIndex(s, tok) ==
    LET at == {i \in 1..Len(s) : s[i] = tok}
    IN  IF at = {} THEN -1
        ELSE (CHOOSE i \in at : \A j \in at : j <= i) - 1

\* The number a sequence of decimal digits denotes.
RECURSIVE DecimalValue(_)
DecimalValue(digits) ==
    IF Len(digits) = 0 THEN 0
    ELSE 10 * DecimalValue(SubSeq(digits, 1, Len(digits) - 1))
         + Atoi(digits[Len(digits)])

\* strconv.Atoi: an error on the empty string and on any token that is not a
\* digit.
StrconvAtoi(s) ==
    IF Len(s) = 0 \/ \E i \in 1..Len(s) : ~IsNumeral(s[i])
    THEN [err |-> TRUE, val |-> 0]
    ELSE [err |-> FALSE, val |-> DecimalValue(s)]

\* strings.ReplaceAll(s, "\\", "/")
SlashesForward(s) == [i \in 1..Len(s) |-> IF s[i] = "\\" THEN "/" ELSE s[i]]

\* strings.ToLower of one token: the tokens of the model that hold an upper
\* case letter, and what they become.
LowerToken(t) ==
    CASE t = "C" -> "c"
      [] t = "Main.go" -> "main.go"
      [] t = "Password" -> "password"
      [] OTHER -> t

\* strings.ToLower
ToLower(s) == [i \in 1..Len(s) |-> LowerToken(s[i])]

\* A string field of an event (File, FuncName) as a token sequence.
FieldTokens(f) == IF f = "" THEN <<>> ELSE <<f>>

\* Breakpoint; Address is never assigned and is left out.  The fields a kind
\* does not use hold Go's zero values.
Breakpoint(id, type, enabled) ==
    [ID |-> id, Type |-> type, File |-> <<>>, Line |-> 0, Function |-> <<>>,
     EventType |-> <<>>, Expression |-> <<>>, Enabled |-> enabled]

\* The nil *Breakpoint a failed call returns.
NilBreakpoint == [ID |-> 0, Type |-> -1, File |-> <<>>, Line |-> 0,
                  Function |-> <<>>, EventType |-> <<>>, Expression |-> <<>>,
                  Enabled |-> FALSE]

\* NewBreakpointManager
NewBreakpointManager == [breakpoints |-> <<>>, nextID |-> 1]

\* An AddBreakpoint that splits file from line at the first colon.
AddBreakpointResult_FirstColon(bm, location) ==
    LET bp == Breakpoint(bm.nextID, LocationBreakpoint, TRUE)
        bm1 == [bm EXCEPT !.nextID = @ + 1]
        added(b) == [bm |-> [bm1 EXCEPT !.breakpoints = Append(@, b)],
                     bp |-> b, err |-> FALSE]
        failed == [bm |-> bm1, bp |-> NilBreakpoint, err |-> TRUE]
    IN  IF HasPrefix(location, <<"func", ":">>)
        THEN added([bp EXCEPT !.Type = FunctionBreakpoint,
                              !.Function = TrimPrefix(location, <<"func", ":">>)])
        ELSE IF Contains(location, <<":">>)
        THEN LET colon == CHOOSE i \in 1..Len(location) :
                              /\ location[i] = ":"
                              /\ \A j \in 1..(i - 1) : location[j] # ":"
                 line == StrconvAtoi(SubSeq(location, colon + 1, Len(location)))
             IN  IF line.err THEN failed
                 ELSE added([bp EXCEPT !.Type = LocationBreakpoint,
                                       !.File = SubSeq(location, 1, colon - 1),
                                       !.Line = line.val])
        ELSE added([bp EXCEPT !.Type = EventTypeBreakpoint,
                              !.EventType = location])

\* AddBreakpoint: the manager after it, the breakpoint returned and the error.
\* bm.nextID++ comes before the location is parsed.
AddBreakpointResult(bm, location) ==
    LET bp == Breakpoint(bm.nextID, LocationBreakpoint, TRUE)
        bm1 == [bm EXCEPT !.nextID = @ + 1]
        added(b) == [bm |-> [bm1 EXCEPT !.breakpoints = Append(@, b)],
                     bp |-> b, err |-> FALSE]
        failed == [bm |-> bm1, bp |-> NilBreakpoint, err |-> TRUE]
    IN  IF HasPrefix(location, <<"func", ":">>)
        THEN added([bp EXCEPT !.Type = FunctionBreakpoint,
                              !.Function = TrimPrefix(location, <<"func", ":">>)])
        ELSE IF Contains(location, <<":">>)
        THEN LET lastColonIndex == LastIndex(location, ":")
             IN  IF lastColonIndex = -1 THEN failed
                 ELSE LET file == SubSeq(location, 1, lastColonIndex)
                          lineStr == SubSeq(location, lastColonIndex + 2,
                                            Len(location))
                          line == StrconvAtoi(lineStr)
                      IN  IF line.err THEN failed
                          ELSE added([bp EXCEPT !.Type = LocationBreakpoint,
                                                !.File = file,
                                                !.Line = line.val])
        ELSE added([bp EXCEPT !.Type = EventTypeBreakpoint,
                              !.EventType = location])

\* An AddWatchpoint that numbers the watchpoint by its place in the list.
AddWatchpointResult_CountsList(bm, expression, watchType) ==
    IF watchType # WatchpointRead /\ watchType # WatchpointWrite
       /\ watchType # WatchpointReadWrite
    THEN [bm |-> bm, bp |-> NilBreakpoint, err |-> TRUE]
    ELSE LET bp == [Breakpoint(Len(bm.breakpoints) + 1, watchType, TRUE)
                        EXCEPT !.Expression = expression]
         IN  [bm |-> [bm EXCEPT !.nextID = @ + 1,
                                !.breakpoints = Append(@, bp)],
              bp |-> bp, err |-> FALSE]

\* AddWatchpoint
AddWatchpointResult(bm, expression, watchType) ==
    IF watchType # WatchpointRead /\ watchType # WatchpointWrite
       /\ watchType # WatchpointReadWrite
    THEN [bm |-> bm, bp |-> NilBreakpoint, err |-> TRUE]
    ELSE LET bp == [Breakpoint(bm.nextID, watchType, TRUE)
                        EXCEPT !.Expression = expression]
         IN  [bm |-> [bm EXCEPT !.nextID = @ + 1,
                                !.breakpoints = Append(@, bp)],
              bp |-> bp, err |-> FALSE]

\* The position (from 1) of the first breakpoint with identifier id, 0 when
\* there is none: the loops of RemoveBreakpoint, EnableBreakpoint and
\* DisableBreakpoint.
RECURSIVE FindBreakpoint(_, _, _)
FindBreakpoint(bps, id, i) ==
    IF i > Len(bps) THEN 0
    ELSE IF bps[i].ID = id THEN i
    ELSE FindBreakpoint(bps, id, i + 1)

\* A RemoveBreakpoint that takes id for a position in the list.
RemoveBreakpointResult_ByPosition(bm, id) ==
    IF id < 1 \/ id > Len(bm.breakpoints) THEN [bm |-> bm, err |-> TRUE]
    ELSE [bm |-> [bm EXCEPT !.breakpoints =
                      SubSeq(@, 1, id - 1) \o SubSeq(@, id + 1, Len(@))],
          err |-> FALSE]

\* RemoveBreakpoint
RemoveBreakpointResult(bm, id) ==
    LET i == FindBreakpoint(bm.breakpoints, id, 1)
    IN  IF i = 0 THEN [bm |-> bm, err |-> TRUE]
        ELSE [bm |-> [bm EXCEPT !.breakpoints =
                          SubSeq(@, 1, i - 1) \o SubSeq(@, i + 1, Len(@))],
              err |-> FALSE]

\* EnableBreakpoint
EnableBreakpointResult(bm, id) ==
    LET i == FindBreakpoint(bm.breakpoints, id, 1)
    IN  IF i = 0 THEN [bm |-> bm, err |-> TRUE]
        ELSE [bm |-> [bm EXCEPT !.breakpoints[i].Enabled = TRUE], err |-> FALSE]

\* DisableBreakpoint
DisableBreakpointResult(bm, id) ==
    LET i == FindBreakpoint(bm.breakpoints, id, 1)
    IN  IF i = 0 THEN [bm |-> bm, err |-> TRUE]
        ELSE [bm |-> [bm EXCEPT !.breakpoints[i].Enabled = FALSE], err |-> FALSE]

\* A CheckBreakpoint loop that does not skip disabled breakpoints.
RECURSIVE CheckBreakpointFrom_IgnoresEnabled(_, _, _, _)
CheckBreakpointFrom_IgnoresEnabled(bps, details, eventType, i) ==
    IF i > Len(bps) THEN FALSE
    ELSE LET bp == bps[i]
         IN  IF bp.Type = EventTypeBreakpoint /\ bp.EventType = eventType
             THEN TRUE
             ELSE IF bp.Type = FunctionBreakpoint /\ Contains(details, bp.Function)
             THEN TRUE
             ELSE CheckBreakpointFrom_IgnoresEnabled(bps, details, eventType, i + 1)

\* The loop of CheckBreakpoint from position i.
RECURSIVE CheckBreakpointFrom(_, _, _, _)
CheckBreakpointFrom(bps, details, eventType, i) ==
    IF i > Len(bps) THEN FALSE
    ELSE LET bp == bps[i]
         IN  IF ~bp.Enabled
             THEN CheckBreakpointFrom(bps, details, eventType, i + 1)
             ELSE IF bp.Type = EventTypeBreakpoint /\ bp.EventType = eventType
             THEN TRUE
             ELSE IF bp.Type = FunctionBreakpoint /\ Contains(details, bp.Function)
             THEN TRUE
             ELSE CheckBreakpointFrom(bps, details, eventType, i + 1)

\* CheckBreakpoint
CheckBreakpoint(bps, details, eventType) ==
    CheckBreakpointFrom(bps, details, eventType, 1)

\* The loop of handleContinue's breakpointChecker from position i.
RECURSIVE breakpointCheckerFrom(_, _, _)
breakpointCheckerFrom(bps, event, i) ==
    IF i > Len(bps) THEN FALSE
    ELSE LET bp == bps[i]
             bpFile == ToLower(SlashesForward(bp.File))
             eventFile == ToLower(SlashesForward(FieldTokens(event.File)))
         IN  IF ~bp.Enabled THEN breakpointCheckerFrom(bps, event, i + 1)
             ELSE IF /\ bp.Type = LocationBreakpoint
                     /\ event.File # "" /\ event.Line > 0
                     /\ bpFile = eventFile /\ bp.Line = event.Line
             THEN TRUE
             ELSE IF /\ bp.Type = FunctionBreakpoint /\ event.Type = FuncEntry
                     /\ \/ Contains(event.Details, bp.Function)
                        \/ /\ event.FuncName # ""
                           /\ Contains(FieldTokens(event.FuncName), bp.Function)
             THEN TRUE
             ELSE IF /\ bp.Type = EventTypeBreakpoint
                     /\ EventTypeString(event.Type) = bp.EventType
             THEN TRUE
             ELSE breakpointCheckerFrom(bps, event, i + 1)

\* handleContinue: breakpointChecker, over the manager's breakpoints.
breakpointChecker(bps, event) == breakpointCheckerFrom(bps, event, 1)

-----------------------------------------------------------------------------
(* Recorders (pkg/recorder): the in-memory recorder and the file recorder   *)
(* with its line format, its compression writer and its reader.  Bytes are  *)
(* tokens, as in Details; a line break is the token "\n".                   *)

\* CompressionType (iota)
NoCompression == 0
ZstdCompression == 1

\* recorder.SnapshotInterval as the package declares it.
DefaultSnapshotInterval == 1000

\* bufio.MaxScanTokenSize: the longest line a Scanner made by bufio.NewScanner
\* returns.
MaxScanTokenSize == 65536

\* The %v rendering of a value of MaxScanTokenSize bytes, as one token.
LargeValue == "(64 KiB value)"

\* The number of bytes of a text: LargeValue has MaxScanTokenSize of them,
\* every other token is counted as one.
TextSize(s) ==
    Len(s) + (MaxScanTokenSize - 1)
                * Cardinality({i \in 1..Len(s) : s[i] = LargeValue})

\* recorder.Event with its ID; Timestamp is left out.
StampedEvent(id, e) ==
    [ID |-> id, Type |-> e.Type, Details |-> e.Details,
     File |-> e.File, Line |-> e.Line, FuncName |-> e.FuncName]

\* The zero Event that json.Unmarshal leaves on an error.
ZeroEvent ==
    [ID |-> 0, Type |-> 0, Details |-> <<>>, File |-> "", Line |-> 0,
     FuncName |-> ""]

\* strconv's decimal rendering of n >= 0, a token for each digit.
RECURSIVE FormatInt(_)
FormatInt(n) ==
    IF n < 10 THEN <<Itoa(n)>>
    ELSE FormatInt(n \div 10) \o <<Itoa(n % 10)>>

\* encoding/json, inside a string literal: a quote, a backslash and a line
\* break are written as escapes.
EscapeToken(t) ==
    CASE t = "\"" -> "\\\""
      [] t = "\\" -> "\\\\"
      [] t = "\n" -> "\\n"
      [] OTHER -> t

\* encoding/json, reading a string literal: the escapes are undone.
UnescapeToken(t) ==
    CASE t = "\\\"" -> "\""
      [] t = "\\\\" -> "\\"
      [] t = "\\n" -> "\n"
      [] OTHER -> t

\* encoding/json: a string as a literal between quotes.
JSONString(text) ==
    <<"\"">> \o [i \in 1..Len(text) |-> EscapeToken(text[i])] \o <<"\"">>

\* A string field read back from its tokens.
TokensField(text) == IF Len(text) = 0 THEN "" ELSE text[1]

\* json.Marshal(Event): the object with the fields in declaration order (the
\* keys, which are fixed, are left out).
Marshal(e) ==
    <<"{">> \o FormatInt(e.ID)
        \o <<",">> \o FormatInt(e.Type)
        \o <<",">> \o JSONString(e.Details)
        \o <<",">> \o JSONString(FieldTokens(e.File))
        \o <<",">> \o FormatInt(e.Line)
        \o <<",">> \o JSONString(FieldTokens(e.FuncName))
        \o <<"}">>

\* Reading a number that starts at position i of line: whether there is one,
\* its value and the position after it.
ScanNumber(line, i) ==
    IF i > Len(line) \/ ~IsNumeral(line[i])
    THEN [ok |-> FALSE, val |-> 0, next |-> i]
    ELSE LET ends == {j \in (i + 1)..(Len(line) + 1) :
                         j > Len(line) \/ ~IsNumeral(line[j])}
             j == CHOOSE k \in ends : \A m \in ends : k <= m
         IN  [ok |-> TRUE, val |-> DecimalValue(SubSeq(line, i, j - 1)),
              next |-> j]

\* Reading a string literal that starts at position i of line.
ScanString(line, i) ==
    IF i > Len(line) \/ line[i] # "\""
    THEN [ok |-> FALSE, val |-> <<>>, next |-> i]
    ELSE LET closing == {j \in (i + 1)..Len(line) : line[j] = "\""}
         IN  IF closing = {} THEN [ok |-> FALSE, val |-> <<>>, next |-> i]
             ELSE LET j == CHOOSE k \in closing : \A m \in closing : k <= m
                  IN  [ok |-> TRUE,
                       val |-> [k \in 1..(j - i - 1) |->
                                   UnescapeToken(line[i + k])],
                       next |-> j + 1]

\* json.Unmarshal(line, &event): an error unless line is one object and
\* nothing else.
Unmarshal(line) ==
    LET id == ScanNumber(line, 2)
        type == ScanNumber(line, id.next + 1)
        details == ScanString(line, type.next + 1)
        file == ScanString(line, details.next + 1)
        lineNo == ScanNumber(line, file.next + 1)
        funcName == ScanString(line, lineNo.next + 1)
        comma(i) == i <= Len(line) /\ line[i] = ","
    IN  IF /\ Len(line) > 0 /\ line[1] = "{"
           /\ id.ok /\ comma(id.next)
           /\ type.ok /\ comma(type.next)
           /\ details.ok /\ comma(details.next)
           /\ file.ok /\ comma(file.next)
           /\ lineNo.ok /\ comma(lineNo.next)
           /\ funcName.ok /\ funcName.next = Len(line)
           /\ line[funcName.next] = "}"
        THEN [err |-> FALSE,
              event |-> [ID |-> id.val, Type |-> type.val,
                         Details |-> details.val,
                         File |-> TokensField(file.val),
                         Line |-> lineNo.val,
                         FuncName |-> TokensField(funcName.val)]]
        ELSE [err |-> TRUE, event |-> ZeroEvent]

\* bufio.Scanner with the line splitter, from position i of content: the
\* lines before the first one of MaxScanTokenSize bytes or more, at which the
\* scan ends with an error; the text after the last line break is a line too
\* when it is not empty.
RECURSIVE ScanLinesFrom(_, _, _)
ScanLinesFrom(content, i, lines) ==
    LET breaks == {j \in i..Len(content) : content[j] = "\n"}
        end == IF breaks = {} THEN Len(content) + 1
               ELSE CHOOSE k \in breaks : \A m \in breaks : k <= m
        line == SubSeq(content, i, end - 1)
    IN  IF i > Len(content) THEN lines
        ELSE IF TextSize(line) >= MaxScanTokenSize THEN lines
        ELSE ScanLinesFrom(content, end + 1, Append(lines, line))

\* The loop of GetEvents over the lines: a line that does not parse is
\* skipped.
RECURSIVE UnmarshalLines(_, _, _)
UnmarshalLines(lines, i, evs) ==
    IF i > Len(lines) THEN evs
    ELSE LET parsed == Unmarshal(lines[i])
         IN  UnmarshalLines(lines, i + 1,
                            IF parsed.err THEN evs ELSE Append(evs, parsed.event))

\* Bytes on their way to the file, and in it, are a sequence of segments: a
\* zstd frame (z) with the bytes it decodes to, or bytes written as they are.
\* Bytes written after bytes run on with them.
AppendSegment(segments, seg) ==
    IF Len(seg.data) = 0 THEN segments
    ELSE IF ~seg.z /\ Len(segments) > 0 /\ ~segments[Len(segments)].z
    THEN [segments EXCEPT ![Len(segments)].data = @ \o seg.data]
    ELSE Append(segments, seg)

RECURSIVE AppendSegments(_, _, _)
AppendSegments(segments, more, i) ==
    IF i > Len(more) THEN segments
    ELSE AppendSegments(AppendSegment(segments, more[i]), more, i + 1)

\* The bytes of a zstd frame read without decompression.
FrameBytes == <<"(zstd frame)">>

\* What the reader made by NewCompressedReader yields from position i of the
\* file: with zstd the frames decoded one after the other, up to the first
\* bytes that are no frame, where the read fails; without compression the
\* bytes as they are.
RECURSIVE ReadFrom(_, _, _, _)
ReadFrom(segments, compressionType, i, content) ==
    IF i > Len(segments) THEN content
    ELSE IF compressionType = NoCompression
    THEN ReadFrom(segments, compressionType, i + 1,
                  content \o (IF segments[i].z THEN FrameBytes
                              ELSE segments[i].data))
    ELSE IF segments[i].z
    THEN ReadFrom(segments, compressionType, i + 1, content \o segments[i].data)
    ELSE content

\* fr.writer.Write(bytes): the zstd encoder keeps the bytes until it is
\* closed; without compression the writer is bufWriter itself.
WriterWrite(s, bytes) ==
    IF s.compressionType = NoCompression
    THEN [s EXCEPT !.bufWriter = AppendSegment(@, [z |-> FALSE, data |-> bytes])]
    ELSE [s EXCEPT !.writer = @ \o bytes]

\* fr.bufWriter.Flush(): the bytes held go to the file.  A bufio.Writer whose
\* write to the file has failed (file is "failed") keeps its error and its
\* bytes, and writes nothing from then on.
BufWriterFlush(s) ==
    IF s.file = "failed" THEN s
    ELSE [s EXCEPT !.disk = AppendSegments(@, s.bufWriter, 1),
                   !.bufWriter = <<>>]

\* fr.bufWriter.Flush() when the file's write returns an error: the error
\* stays with the bufio.Writer.
FailedFlush(s) == [s EXCEPT !.file = "failed"]

\* Which write to the file fails during a RecordEvent: none, that of the
\* event's line, or that of the SnapshotMarker's line.
WriteFaults == {"none", "event", "marker"}

\* CloseCompressedWriter: the encoder is closed (writerClosed; a closed
\* zstd.Encoder answers every Write with ErrEncoderClosed and stays closed
\* until NewCompressedWriter makes a new one); it writes what it holds as one
\* frame, and
\* nothing when it holds nothing.
CloseCompressedWriter(s) ==
    IF s.compressionType = NoCompression \/ s.writerClosed THEN s
    ELSE [s EXCEPT !.bufWriter = IF Len(s.writer) = 0 THEN @
                                 ELSE Append(@, [z |-> TRUE, data |-> s.writer]),
                   !.writer = <<>>,
                   !.writerClosed = TRUE]

\* The recorder before NewFileRecorderWithOptions.
NilFileRecorder ==
    [file |-> "nil", writer |-> <<>>, bufWriter |-> <<>>,
     compressionType |-> NoCompression, eventCount |-> 0,
     writerClosed |-> FALSE]

\* NewFileRecorderWithOptions on a path whose file holds segments (O_APPEND).
NewFileRecorderWithOptionsResult(segments, compressionType) ==
    [disk |-> segments, file |-> "open", writer |-> <<>>, bufWriter |-> <<>>,
     compressionType |-> compressionType, eventCount |-> 0,
     writerClosed |-> FALSE]

\* CreateSnapshot
CreateSnapshot(id) == [ID |-> id]

\* The event recordSnapshotEvent writes for a snapshot.
SnapshotMarker(snapshot) ==
    [ID |-> snapshot.ID, Type |-> SnapshotEvent,
     Details |-> <<"Snapshot", "created">>, File |-> "", Line |-> 0,
     FuncName |-> ""]

\* FileRecorder.recordSnapshotEvent
recordSnapshotEvent(s, snapshot) ==
    BufWriterFlush(
        WriterWrite(WriterWrite(s, Marshal(SnapshotMarker(snapshot))), <<"\n">>))

\* FileRecorder.recordSnapshotEvent whose flush fails: its error.
recordSnapshotEventFailing(s, snapshot) ==
    FailedFlush(
        WriterWrite(WriterWrite(s, Marshal(SnapshotMarker(snapshot))), <<"\n">>))

\* FileRecorder.RecordEvent with the package's interval, under a fault: the
\* recorder after it, the error returned and whether recordSnapshotEvent was
\* called.  What recordSnapshotEvent returns is not looked at.
RecordEventResult(s, e, interval, fault) ==
    LET buffered == WriterWrite(WriterWrite(s, Marshal(e)), <<"\n">>)
        counted == [BufWriterFlush(buffered) EXCEPT !.eventCount = @ + 1]
        due == interval > 0 /\ counted.eventCount % interval = 0
    IN  IF s.writerClosed \/ s.file = "failed"
        THEN [s |-> s, err |-> TRUE, marker |-> FALSE]
        ELSE IF fault = "event"
        THEN [s |-> FailedFlush(buffered), err |-> TRUE, marker |-> FALSE]
        ELSE [s |-> IF ~due THEN counted
                    ELSE IF fault = "marker"
                    THEN recordSnapshotEventFailing(counted, CreateSnapshot(e.ID))
                    ELSE recordSnapshotEvent(counted, CreateSnapshot(e.ID)),
              err |-> FALSE, marker |-> due]

\* FileRecorder.GetEvents: the recorder after it and the events returned.
GetEventsResult(s) ==
    LET flushed == BufWriterFlush(CloseCompressedWriter(s))
        content == ReadFrom(flushed.disk, flushed.compressionType, 1, <<>>)
    IN  [s |-> [flushed EXCEPT !.writer = <<>>, !.writerClosed = FALSE],
         events |-> UnmarshalLines(ScanLinesFrom(content, 1, <<>>), 1, <<>>)]

\* FileRecorder.GetEvents when os.Open returns an error: the writer is
\* closed and flushed, nil is returned, and the statement that makes a new
\* writer is not reached.
GetEventsOpenFailsResult(s) ==
    [s |-> BufWriterFlush(CloseCompressedWriter(s)), events |-> <<>>]

\* FileRecorder.Clear
ClearResult(s) ==
    [BufWriterFlush(CloseCompressedWriter(s))
        EXCEPT !.disk = <<>>, !.file = "open", !.bufWriter = <<>>,
               !.writer = <<>>, !.eventCount = 0, !.writerClosed = FALSE]

\* FileRecorder.Close: the flush's error is returned before the file is
\* closed.
CloseResult(s) ==
    IF s.file = "failed" THEN [s |-> s, err |-> TRUE]
    ELSE [s |-> [BufWriterFlush(CloseCompressedWriter(s))
                    EXCEPT !.file = "closed"],
          err |-> FALSE]

\* The producer threads that share the recorder.
Producers == {1, 2}

\* A producer before its first emitter call.
IdleProducer ==
    [pc |-> "idle", e |-> ZeroEvent, slice |-> <<>>, count |-> 0,
     left |-> MaxEmits]

-----------------------------------------------------------------------------
(* The security envelope (pkg/recorder, security.go): redaction, AES-GCM,   *)
(* HMAC-SHA256 and the SecureEvent a secure recorder writes per line.  A    *)
(* key is a token (its length is KeyLen of it); a ciphertext holds the      *)
(* nonce, the key that sealed it, the plain bytes and its tag, and opens    *)
(* under that key alone and only with its tag in place.                     *)

\* The length in bytes of a key; nil has none.
KeyLen(key) ==
    CASE key = "key16" -> 16
      [] key = "other16" -> 16
      [] key = "key5" -> 5
      [] OTHER -> 0

\* The key lengths aes.NewCipher takes.
AESKeySizes == {16, 24, 32}

\* The tag AES-GCM appends on Seal.
Tag == "(tag)"

\* EncryptData without the check of the key's length.
EncryptData_AnyKey(data, key, nonce) ==
    [err |-> FALSE, data |-> <<nonce, key>> \o data \o <<Tag>>]

\* EncryptData with the nonce that rand.Reader gives.
EncryptData(data, key, nonce) ==
    IF KeyLen(key) \notin AESKeySizes THEN [err |-> TRUE, data |-> <<>>]
    ELSE [err |-> FALSE, data |-> <<nonce, key>> \o data \o <<Tag>>]

\* DecryptData that takes what follows the nonce for the plain bytes.
DecryptData_NoOpen(data, key) ==
    [err |-> FALSE, data |-> SubSeq(data, 2, Len(data))]

\* DecryptData: an error on data shorter than a nonce, on a key aes.NewCipher
\* rejects, and when Open does not authenticate the ciphertext under key.
DecryptData(data, key) ==
    IF Len(data) < 1 THEN [err |-> TRUE, data |-> <<>>]
    ELSE IF KeyLen(key) \notin AESKeySizes THEN [err |-> TRUE, data |-> <<>>]
    ELSE IF Len(data) < 3 \/ data[2] # key \/ data[Len(data)] # Tag
    THEN [err |-> TRUE, data |-> <<>>]
    ELSE [err |-> FALSE, data |-> SubSeq(data, 3, Len(data) - 1)]

\* A byte as base64 and hex write it: a quote, a backslash and a line break
\* (and the JSON escapes of these) become letters and digits.
Armor(t) ==
    CASE t = "\"" -> "(22)"
      [] t = "\\" -> "(5c)"
      [] t = "\n" -> "(0a)"
      [] t = "\\\"" -> "(5c22)"
      [] t = "\\\\" -> "(5c5c)"
      [] t = "\\n" -> "(5c6e)"
      [] OTHER -> t

Unarmor(t) ==
    CASE t = "(22)" -> "\""
      [] t = "(5c)" -> "\\"
      [] t = "(0a)" -> "\n"
      [] t = "(5c22)" -> "\\\""
      [] t = "(5c5c)" -> "\\\\"
      [] t = "(5c6e)" -> "\\n"
      [] OTHER -> t

\* What marks a text as base64 of some bytes.
Base64 == "(base64)"

\* base64.StdEncoding.EncodeToString
EncodeToString(bytes) ==
    IF Len(bytes) = 0 THEN <<>>
    ELSE <<Base64>> \o [i \in 1..Len(bytes) |-> Armor(bytes[i])]

\* base64.StdEncoding.DecodeString: an error on a text that is no encoding.
DecodeString(text) ==
    IF Len(text) = 0 THEN [err |-> FALSE, data |-> <<>>]
    ELSE IF text[1] # Base64 THEN [err |-> TRUE, data |-> <<>>]
    ELSE [err |-> FALSE,
          data |-> [i \in 1..(Len(text) - 1) |-> Unarmor(text[i + 1])]]

\* CalculateHMAC: the hex digest of data under key; digests are equal for
\* equal data and key only.
CalculateHMAC(data, key) ==
    <<"(hmac)", key>> \o [i \in 1..Len(data) |-> Armor(data[i])]

\* VerifyHMAC
VerifyHMAC(data, key, expectedHMAC) == CalculateHMAC(data, key) = expectedHMAC

\* The class ["'] of the redaction expression.
IsQuote(t) == t \in {"\"", "'"}

\* One pattern of RedactData applied from position i of text on: at a token
\* that is the pattern in any case, followed by an optional quote, a colon or
\* an equals sign, an optional quote and a value, the value is replaced.  The
\* value is a run of bytes that are no quote, brace or space: of an escaped
\* quote it takes the backslash and leaves the quote.
RECURSIVE RedactFrom(_, _, _, _, _)
RedactFrom(text, i, pattern, replacement, out) ==
    IF i > Len(text) THEN out
    ELSE LET tok(j) == IF j <= Len(text) THEN text[j] ELSE "}"
             sep == IF IsQuote(tok(i + 1)) THEN i + 2 ELSE i + 1
             val == IF IsQuote(tok(sep + 1)) THEN sep + 2 ELSE sep + 1
             matches == /\ LowerToken(text[i]) = LowerToken(pattern)
                        /\ tok(sep) \in {":", "="}
                        /\ ~IsQuote(tok(val)) /\ tok(val) # "}"
         IN  IF matches
             THEN RedactFrom(text, val + 1, pattern, replacement,
                             out \o SubSeq(text, i, val - 1) \o <<replacement>>
                                 \o (IF text[val] = "\\\"" THEN <<"\"">>
                                     ELSE <<>>))
             ELSE RedactFrom(text, i + 1, pattern, replacement,
                             Append(out, text[i]))

\* RedactData: the patterns applied one after the other to the whole text.
RECURSIVE RedactData(_, _, _)
RedactData(data, patterns, replacement) ==
    IF Len(patterns) = 0 THEN data
    ELSE RedactData(RedactFrom(data, 1, patterns[1], replacement, <<>>),
                    Tail(patterns), replacement)

\* SecurityOptions
SecurityOptions(encryption, encryptionKey, redaction, integrity) ==
    [EnableEncryption |-> encryption, EncryptionKey |-> encryptionKey,
     EnableRedaction |-> redaction,
     RedactionPatterns |-> <<"password", "token", "secret", "key", "credential">>,
     RedactionReplacement |-> "***REDACTED***",
     EnableIntegrityCheck |-> integrity, IntegrityKey |-> "integrity-key"]

\* DefaultSecurityOptions, but for the integrity key, which is nil there.
DefaultSecurityOptions == SecurityOptions(FALSE, "", FALSE, FALSE)

\* SecureEvent
SecureEvent(event, encrypted, hmac, isRedacted) ==
    [Event |-> event, Encrypted |-> encrypted, HMAC |-> hmac,
     IsRedacted |-> isRedacted]

\* SecureEventFromEvent with the nonce that EncryptData draws.
SecureEventFromEventResult(event, opts, nonce) ==
    LET eventJSON == Marshal(event)
        redactedEventJSON ==
            RedactData(eventJSON, opts.RedactionPatterns,
                       opts.RedactionReplacement)
        redactedEvent == Unmarshal(redactedEventJSON)
        plainJSON == IF opts.EnableRedaction THEN redactedEventJSON
                     ELSE eventJSON
        plainEvent == IF opts.EnableRedaction THEN redactedEvent.event
                      ELSE event
        encryptedData == EncryptData(plainJSON, opts.EncryptionKey, nonce)
        placeholder == [ID |-> event.ID, Type |-> event.Type,
                        Details |-> EncodeToString(encryptedData.data),
                        File |-> "", Line |-> 0, FuncName |-> ""]
        finalEvent == IF opts.EnableEncryption THEN placeholder ELSE plainEvent
        finalJSON == IF opts.EnableEncryption THEN Marshal(placeholder)
                     ELSE plainJSON
    IN  IF opts.EnableRedaction /\ redactedEvent.err
        THEN [err |-> TRUE, se |-> SecureEvent(event, FALSE, <<>>, FALSE)]
        ELSE IF opts.EnableEncryption /\ encryptedData.err
        THEN [err |-> TRUE,
              se |-> SecureEvent(plainEvent, FALSE, <<>>, opts.EnableRedaction)]
        ELSE [err |-> FALSE,
              se |-> SecureEvent(finalEvent, opts.EnableEncryption,
                                 IF opts.EnableIntegrityCheck
                                 THEN CalculateHMAC(finalJSON, opts.IntegrityKey)
                                 ELSE <<>>,
                                 opts.EnableRedaction)]

\* GetOriginalEvent: the error, the event, and what the call did in the order
\* it did it ("base64": DecodeString of the details, "hmac": VerifyHMAC,
\* "decrypt": DecryptData).
GetOriginalEventResult(se, opts) ==
    LET verifies == opts.EnableIntegrityCheck /\ Len(se.HMAC) > 0
        verified == VerifyHMAC(Marshal(se.Event), opts.IntegrityKey, se.HMAC)
        encryptedData == DecodeString(se.Event.Details)
        decryptedData == DecryptData(encryptedData.data, opts.EncryptionKey)
        event == Unmarshal(decryptedData.data)
        failed(did) == [err |-> TRUE, event |-> ZeroEvent, did |-> did]
        hmac == IF verifies THEN <<"hmac">> ELSE <<>>
    IN  IF ~se.Encrypted
        THEN IF verifies /\ ~verified THEN failed(hmac)
             ELSE [err |-> FALSE, event |-> se.Event, did |-> hmac]
        ELSE IF encryptedData.err THEN failed(<<"base64">>)
        ELSE IF verifies /\ ~verified THEN failed(<<"base64">> \o hmac)
        ELSE IF decryptedData.err
        THEN failed(<<"base64">> \o hmac \o <<"decrypt">>)
        ELSE IF event.err THEN failed(<<"base64">> \o hmac \o <<"decrypt">>)
        ELSE [err |-> FALSE, event |-> event.event,
              did |-> <<"base64">> \o hmac \o <<"decrypt">>]

\* encoding/json of a bool
FormatBool(b) == IF b THEN "true" ELSE "false"

\* json.Marshal(SecureEvent): event, encrypted, hmac, is_redacted in this
\* order (the keys are left out).
MarshalSecure(se) ==
    <<"{">> \o Marshal(se.Event)
        \o <<",", FormatBool(se.Encrypted), ",">> \o JSONString(se.HMAC)
        \o <<",", FormatBool(se.IsRedacted), "}">>

\* json.Unmarshal(line, &secureEvent): an error unless line is one envelope.
UnmarshalSecure(line) ==
    LET closings == {j \in 2..Len(line) : line[j] = "}"}
        j == IF closings = {} THEN 0
             ELSE CHOOSE k \in closings : \A m \in closings : k <= m
        event == Unmarshal(SubSeq(line, 2, j))
        tok(i) == IF i <= Len(line) THEN line[i] ELSE ""
        bools == {"true", "false"}
        hmac == ScanString(line, j + 4)
    IN  IF /\ Len(line) > 0 /\ line[1] = "{"
           /\ j > 0 /\ ~event.err
           /\ tok(j + 1) = "," /\ tok(j + 2) \in bools /\ tok(j + 3) = ","
           /\ hmac.ok /\ tok(hmac.next) = ","
           /\ tok(hmac.next + 1) \in bools
           /\ tok(hmac.next + 2) = "}" /\ hmac.next + 2 = Len(line)
        THEN [err |-> FALSE,
              se |-> SecureEvent(event.event, tok(j + 2) = "true", hmac.val,
                                 tok(hmac.next + 1) = "true")]
        ELSE [err |-> TRUE, se |-> SecureEvent(ZeroEvent, FALSE, <<>>, FALSE)]

\* No GetOriginalEvent yet.
NoResult == [err |-> FALSE, event |-> ZeroEvent, did |-> <<>>]

\* Before the first SecureEventFromEvent.
NoEnvelope ==
    [made |-> FALSE, event |-> ZeroEvent, opts |-> DefaultSecurityOptions,
     err |-> FALSE, se |-> SecureEvent(ZeroEvent, FALSE, <<>>, FALSE),
     tampered |-> 0, unwrapped |-> FALSE, readOpts |-> DefaultSecurityOptions,
     result |-> NoResult]

\* The secure recorder before NewSecureFileRecorderWithOptions.
NilSecureFileRecorder ==
    [file |-> "nil", writer |-> <<>>, bufWriter |-> <<>>,
     compressionType |-> NoCompression, eventCount |-> 0,
     writerClosed |-> FALSE, securityOpts |-> DefaultSecurityOptions]

\* What is done to a SecureEvent or to its line in the file: the details
\* changed, the details replaced by a text that is no base64, the hmac
\* changed, the hmac removed, a flag flipped.
TamperKinds == {"details", "base64", "hmac", "nohmac", "encrypted", "redacted"}

TamperSecureEvent(se, kind) ==
    CASE kind = "details" -> [se EXCEPT !.Event.Details = Append(@, "x")]
      [] kind = "base64" -> [se EXCEPT !.Event.Details = <<"not", "base64">>]
      [] kind = "hmac" -> [se EXCEPT !.HMAC = Append(@, "x")]
      [] kind = "nohmac" -> [se EXCEPT !.HMAC = <<>>]
      [] kind = "encrypted" -> [se EXCEPT !.Encrypted = ~@]
      [] kind = "redacted" -> [se EXCEPT !.IsRedacted = ~@]

\* NewSecureFileRecorderWithOptions on a path whose file holds segments.
NewSecureFileRecorderWithOptionsResult(segments, securityOpts, compressionType) ==
    [disk |-> segments, file |-> "open", writer |-> <<>>, bufWriter |-> <<>>,
     compressionType |-> compressionType, eventCount |-> 0,
     writerClosed |-> FALSE, securityOpts |-> securityOpts]

\* F(x), with x worked out once and for all before F is applied.
Once(F(_), x) == CHOOSE r \in {F(v) : v \in {x}} : TRUE

\* SecureFileRecorder.recordSnapshotEvent up to its flush: the error of
\* SecureEventFromEvent, or the recorder with the marker's line buffered, and
\* the line.
SecureSnapshotLine(s, snapshot, nonce) ==
    Once(LAMBDA secureEvent :
             Once(LAMBDA data :
                      [err |-> secureEvent.err, line |-> data,
                       s |-> WriterWrite(WriterWrite(s, data), <<"\n">>)],
                  MarshalSecure(secureEvent.se)),
         SecureEventFromEventResult(SnapshotMarker(snapshot), s.securityOpts,
                                    nonce))

\* The end of SecureFileRecorder.RecordEvent when a snapshot is due: counted
\* is the recorder with the event's line flushed and counted, marker what
\* recordSnapshotEvent did up to its flush.
SecureRecordSnapshot(counted, data, marker, fault) ==
    IF marker.err
    THEN [s |-> counted, err |-> TRUE, lines |-> <<data>>, marker |-> TRUE]
    ELSE IF fault = "marker"
    THEN [s |-> FailedFlush(marker.s), err |-> TRUE, lines |-> <<data>>,
          marker |-> TRUE]
    ELSE [s |-> BufWriterFlush(marker.s), err |-> FALSE,
          lines |-> <<data, marker.line>>, marker |-> TRUE]

\* SecureFileRecorder.RecordEvent from the write of the event's line on:
\* buffered is the recorder with the line in its writer.
SecureRecordLine(buffered, data, e, interval, nonce, fault) ==
    IF fault = "event"
    THEN [s |-> FailedFlush(buffered), err |-> TRUE, lines |-> <<>>,
          marker |-> FALSE]
    ELSE Once(LAMBDA counted :
                  IF ~(interval > 0 /\ counted.eventCount % interval = 0)
                  THEN [s |-> counted, err |-> FALSE, lines |-> <<data>>,
                        marker |-> FALSE]
                  ELSE Once(LAMBDA marker :
                                SecureRecordSnapshot(counted, data, marker,
                                                     fault),
                            SecureSnapshotLine(counted, CreateSnapshot(e.ID),
                                               nonce)),
              [BufWriterFlush(buffered) EXCEPT !.eventCount = @ + 1])

\* SecureFileRecorder.RecordEvent under a fault: the recorder after it, the
\* error returned and the lines that went to the writer.  The error of
\* SecureEventFromEvent is returned before anything is written or counted,
\* and what recordSnapshotEvent returns is returned.
SecureRecordEventResult(s, e, interval, nonce, fault) ==
    Once(LAMBDA secureEvent :
             IF secureEvent.err \/ s.writerClosed \/ s.file = "failed"
             THEN [s |-> s, err |-> TRUE, lines |-> <<>>, marker |-> FALSE]
             ELSE Once(LAMBDA data :
                           Once(LAMBDA buffered :
                                    SecureRecordLine(buffered, data, e,
                                                     interval, nonce, fault),
                                WriterWrite(WriterWrite(s, data), <<"\n">>)),
                       MarshalSecure(secureEvent.se)),
         SecureEventFromEventResult(e, s.securityOpts, nonce))

\* What the loop of SecureFileRecorder.GetEvents does with a line: it skips
\* the line if it does not parse or if GetOriginalEvent returns an error for
\* its envelope, and has the original event otherwise.
ScannedLine(line, opts) ==
    Once(LAMBDA parsed :
             IF parsed.err THEN [skip |-> TRUE, event |-> ZeroEvent]
             ELSE Once(LAMBDA original :
                           [skip |-> original.err, event |-> original.event],
                       GetOriginalEventResult(parsed.se, opts)),
         UnmarshalSecure(line))

\* Whether events() skips a line.
Skips(line, opts) == ScannedLine(line, opts).skip

\* The loop of SecureFileRecorder.GetEvents over the lines.
RECURSIVE OriginalEvents(_, _, _, _)
OriginalEvents(lines, opts, i, evs) ==
    IF i > Len(lines) THEN evs
    ELSE Once(LAMBDA scanned :
                  Once(LAMBDA next : OriginalEvents(lines, opts, i + 1, next),
                       IF scanned.skip THEN evs
                       ELSE Append(evs, scanned.event)),
              ScannedLine(lines[i], opts))

\* The lines bufio.Scanner finds in the file of s.
FileLines(s) ==
    Once(LAMBDA content : ScanLinesFrom(content, 1, <<>>),
         ReadFrom(s.disk, s.compressionType, 1, <<>>))

\* SecureFileRecorder.GetEvents: the recorder after it and the events
\* returned.
SecureGetEventsResult(s) ==
    Once(LAMBDA flushed :
             [s |-> [flushed EXCEPT !.writer = <<>>, !.writerClosed = FALSE],
              events |-> Once(LAMBDA lines :
                                  OriginalEvents(lines, s.securityOpts, 1, <<>>),
                              FileLines(flushed))],
         BufWriterFlush(CloseCompressedWriter(s)))

\* Whether the scan of content from position i ends with an error: a line of
\* MaxScanTokenSize bytes or more.
RECURSIVE ScanErr(_, _)
ScanErr(content, i) ==
    LET breaks == {j \in i..Len(content) : content[j] = "\n"}
        end == IF breaks = {} THEN Len(content) + 1
               ELSE CHOOSE k \in breaks : \A m \in breaks : k <= m
    IN  IF i > Len(content) THEN FALSE
        ELSE IF TextSize(SubSeq(content, i, end - 1)) >= MaxScanTokenSize
        THEN TRUE
        ELSE ScanErr(content, end + 1)

\* SecureFileRecorder.DetectTampering: it reads the file as it is, answers
\* false when integrity is disabled, and passes over an envelope without an
\* hmac.
DetectTamperingResult(s) ==
    LET bad(line) ==
            \E parsed \in {UnmarshalSecure(line)} :
                \/ parsed.err
                \/ /\ Len(parsed.se.HMAC) > 0
                   /\ ~VerifyHMAC(Marshal(parsed.se.Event),
                                  s.securityOpts.IntegrityKey, parsed.se.HMAC)
    IN  IF ~s.securityOpts.EnableIntegrityCheck THEN FALSE
        ELSE \E content \in {ReadFrom(s.disk, s.compressionType, 1, <<>>)} :
                 \/ \E lines \in {ScanLinesFrom(content, 1, <<>>)} :
                        \E i \in 1..Len(lines) :
                            \E line \in {lines[i]} : bad(line)
                 \/ ScanErr(content, 1)

\* What is done to a line of the file: to its envelope, or to its first byte.
LineTamperKinds == TamperKinds \cup {"corrupt"}

TamperLine(line, kind) ==
    IF kind = "corrupt" THEN <<"#">> \o Tail(line)
    ELSE Once(LAMBDA parsed :
                  IF parsed.err THEN line
                  ELSE MarshalSecure(TamperSecureEvent(parsed.se, kind)),
              UnmarshalSecure(line))

\* The bytes of lines, a line break after each.
RECURSIVE JoinLines(_)
JoinLines(lines) ==
    IF Len(lines) = 0 THEN <<>>
    ELSE Head(lines) \o <<"\n">> \o JoinLines(Tail(lines))

\* No line written, no line changed.
NothingWritten == [lines |-> <<>>, tampers |-> 0, line |-> 0]

-----------------------------------------------------------------------------
(* Selective instrumentation (pkg/instrumentation/selective.go) and the     *)
(* emission functions that consult it (func_hooks.go, concurrency.go).  A   *)
(* package path, a pattern and a function's full name are the sequences of  *)
(* their characters.                                                        *)

\* strings.HasSuffix
HasSuffix(s, suffix) ==
    Len(s) >= Len(suffix) /\ SubSeq(s, Len(s) - Len(suffix) + 1, Len(s)) = suffix

\* strings.TrimSuffix
TrimSuffix(s, suffix) ==
    IF HasSuffix(s, suffix) THEN SubSeq(s, 1, Len(s) - Len(suffix)) ELSE s

\* The wildcard suffix of a pattern.
Ellipsis == <<".", ".", ".">>

\* filepath.Match(pattern, name) where the separator is the slash: a star
\* matches any run of characters that holds no separator, any other character
\* of the patterns here matches itself, and the whole name must be matched.
RECURSIVE Match(_, _)
Match(pattern, name) ==
    IF Len(pattern) = 0 THEN Len(name) = 0
    ELSE IF Head(pattern) = "*"
         THEN \E k \in 0..Len(name) :
                  /\ \A j \in 1..k : name[j] # "/"
                  /\ Match(Tail(pattern), SubSeq(name, k + 1, Len(name)))
         ELSE /\ Len(name) > 0
              /\ Head(name) = Head(pattern)
              /\ Match(Tail(pattern), Tail(name))

\* A matchesPackagePath that knows no wildcard suffix.
matchesPackagePath_NoEllipsis(packagePath, pattern) ==
    Match(pattern, packagePath)

\* matchesPackagePath(packagePath, pattern)
matchesPackagePath(packagePath, pattern) ==
    IF HasSuffix(pattern, Ellipsis)
    THEN HasPrefix(packagePath, TrimSuffix(pattern, Ellipsis))
    ELSE Match(pattern, packagePath)

\* for _, p := range patterns { if matchesPackagePath(packagePath, p) {...} }:
\* whether the loop, from its i-th round on, finds a pattern that matches.
RECURSIVE MatchesFrom(_, _, _)
MatchesFrom(packagePath, patterns, i) ==
    IF i > Len(patterns) THEN FALSE
    ELSE IF matchesPackagePath(packagePath, patterns[i]) THEN TRUE
    ELSE MatchesFrom(packagePath, patterns, i + 1)

InstrumentationOptions(enabled, includePackages, excludePackages, instrumentStdlib) ==
    [Enabled |-> enabled, IncludePackages |-> includePackages,
     ExcludePackages |-> excludePackages, InstrumentStdlib |-> instrumentStdlib]

DefaultInstrumentationOptions ==
    InstrumentationOptions(TRUE, <<>>, <<>>, FALSE)

\* ShouldInstrument(packagePath) when CurrentOptions is options throughout.
ShouldInstrumentWith(options, packagePath) ==
    IF ~options.Enabled THEN FALSE
    ELSE LET isStdlib == ~Contains(packagePath, <<".">>)
         IN  IF isStdlib /\ ~options.InstrumentStdlib THEN FALSE
             ELSE IF MatchesFrom(packagePath, options.ExcludePackages, 1)
                  THEN FALSE
             ELSE IF Len(options.IncludePackages) = 0 THEN TRUE
             ELSE MatchesFrom(packagePath, options.IncludePackages, 1)

\* strings.IndexByte(s, c), counted from one: 0 when c is not in s.
IndexByte(s, c) ==
    IF \E i \in 1..Len(s) : s[i] = c
    THEN CHOOSE i \in 1..Len(s) : s[i] = c /\ \A j \in 1..(i - 1) : s[j] # c
    ELSE 0

\* strings.LastIndexByte(s, c), counted from one: 0 when c is not in s.
LastIndexByte(s, c) ==
    IF \E i \in 1..Len(s) : s[i] = c
    THEN CHOOSE i \in 1..Len(s) : s[i] = c /\ \A j \in (i + 1)..Len(s) : s[j] # c
    ELSE 0

\* extractPackagePath(fullName): what stands before the first dot after the
\* last slash.
extractPackagePath(fullName) ==
    LET lastSlash == LastIndexByte(fullName, "/")
        funcName == SubSeq(fullName, lastSlash + 1, Len(fullName))
        dotIndex == IndexByte(funcName, ".")
    IN  IF dotIndex = 0 THEN <<>>
        ELSE SubSeq(fullName, 1, lastSlash + dotIndex - 1)

\* The characters of the function names the hooks are called with.
Spell(funcName) ==
    CASE funcName = "p.F" -> <<"p", ".", "F">>
      [] funcName = "F" -> <<"F">>
      [] funcName = "TestF" -> <<"T", "e", "s", "t", "F">>
      [] OTHER -> <<>>

\* getPackagePathFromFunc(funcName), called from a hook that caller called:
\* runtime.Caller(2) names caller.
getPackagePathFromFunc(funcName, caller) ==
    IF ~Contains(Spell(funcName), <<".">>) THEN <<>>
    ELSE extractPackagePath(caller)

\* The call of no ShouldInstrument, and the assignment of no
\* SetInstrumentationOptions.
NoCall ==
    [pc |-> "idle", packagePath |-> <<>>, excludes |-> <<>>, includes |-> <<>>,
     ret |-> FALSE, among |-> {}]

NoAssignment == [pc |-> "idle", options |-> DefaultInstrumentationOptions,
                 old |-> DefaultInstrumentationOptions, fields |-> {}]

-----------------------------------------------------------------------------
(* The runtime tracing integrator (pkg/instrumentation, trace_integration):  *)
(* three maps from what the host names (a runtime goroutine id, a channel's *)
(* pointer, a mutex's pointer) to the integrator's own ids, and a counter   *)
(* for each.                                                                *)

\* A map with nothing stored.
EmptyMap == [k \in {} |-> 0]

\* m.Store(key, value)
MapStore(m, key, value) ==
    [k \in DOMAIN m \cup {key} |-> IF k = key THEN value ELSE m[k]]

\* traceInt == nil
NilTraceIntegration ==
    [recorder |-> "nil", goroutineMap |-> EmptyMap, channelMap |-> EmptyMap,
     mutexMap |-> EmptyMap, nextGoroutineID |-> 0, nextChannelID |-> 0,
     nextMutexID |-> 0]

\* The runtime id of the main goroutine (getGoroutineID() in
\* InitRuntimeTracing), of a goroutine the program started, and of the
\* goroutine InitRuntimeTracing starts for monitorGoroutines.
MainGID == 1
WorkerGID == 2
MonitorGID == 3

\* The goroutines that call into the integrator, by their runtime ids.
Tracers == {MainGID, WorkerGID, MonitorGID}

\* A goroutine that is in no call of the integrator, with the calls it has
\* yet to make.
IdleTracer ==
    [pc |-> "idle", fn |-> "", op |-> "", host |-> "", kind |-> "",
     key |-> "", id |-> 0, tmp |-> 0, hostID |-> 0, left |-> MaxEmits]

-----------------------------------------------------------------------------
(* BasicReplayer *)

GoroutineState(id, running) == [ID |-> id, Running |-> running]

ChannelState(id, closed) == [ID |-> id, Messages |-> <<>>, Closed |-> closed]

\* Go's m[k] = v on a map modelled as a function.
MapPut(m, k, v) == [x \in DOMAIN m \cup {k} |-> IF x = k THEN v ELSE m[x]]

\* A processing of switches that marks the target running first and the
\* source not running after it.
ProcessGoroutineSwitch_SourceLast(r, event) ==
    IF DetailsContains(event.Details, <<"created">>)
    THEN LET scan == DetailsSscanf(event.Details, FmtGoroutineCreated)
             gID == IF scan.err THEN 0 ELSE scan.vals[1]
         IN  [r EXCEPT !.goroutines = MapPut(@, gID, GoroutineState(gID, TRUE))]
    ELSE IF DetailsContains(event.Details, <<"switch", "from">>)
    THEN LET scan == DetailsSscanf(event.Details, FmtGoroutineSwitch)
         IN  IF scan.err THEN r
             ELSE LET fromID == scan.vals[1]
                      toID == scan.vals[2]
                      g1 == IF toID \in DOMAIN r.goroutines
                            THEN [r.goroutines EXCEPT ![toID].Running = TRUE]
                            ELSE MapPut(r.goroutines, toID,
                                        GoroutineState(toID, TRUE))
                      g2 == IF fromID \in DOMAIN g1
                            THEN [g1 EXCEPT ![fromID].Running = FALSE]
                            ELSE g1
                  IN  [r EXCEPT !.goroutines = g2, !.activeGoroutine = toID]
    ELSE r

\* processGoroutineAndChannelEvents, case recorder.GoroutineSwitch: the
\* replayer r after event.
ProcessGoroutineSwitch(r, event) ==
    IF DetailsContains(event.Details, <<"created">>)
    THEN LET scan == DetailsSscanf(event.Details, FmtGoroutineCreated)
             gID == IF scan.err THEN 0 ELSE scan.vals[1]
         IN  [r EXCEPT !.goroutines = MapPut(@, gID, GoroutineState(gID, TRUE))]
    ELSE IF DetailsContains(event.Details, <<"switch", "from">>)
    THEN LET scan == DetailsSscanf(event.Details, FmtGoroutineSwitch)
         IN  IF scan.err THEN r
             ELSE LET fromID == scan.vals[1]
                      toID == scan.vals[2]
                      g1 == IF fromID \in DOMAIN r.goroutines
                            THEN [r.goroutines EXCEPT ![fromID].Running = FALSE]
                            ELSE r.goroutines
                      g2 == IF toID \in DOMAIN g1
                            THEN [g1 EXCEPT ![toID].Running = TRUE]
                            ELSE MapPut(g1, toID, GoroutineState(toID, TRUE))
                  IN  [r EXCEPT !.goroutines = g2, !.activeGoroutine = toID]
    ELSE r

\* "Ensure the channel exists": a send or a receive on chID.
EnsureChannel(chans, chID) ==
    IF chID \in DOMAIN chans THEN chans
    ELSE MapPut(chans, chID, ChannelState(chID, FALSE))

\* "Mark the channel as closed": a close of chID.
CloseChannel(chans, chID) ==
    IF chID \in DOMAIN chans THEN [chans EXCEPT ![chID].Closed = TRUE]
    ELSE chans

\* processGoroutineAndChannelEvents, case recorder.ChannelOperation.
ProcessChannelOperation(r, event) ==
    IF DetailsContains(event.Details, <<"send", "by">>)
    THEN LET scan == DetailsSscanf(event.Details, FmtChannelSend)
         IN  IF scan.err THEN r
             ELSE [r EXCEPT !.channels = EnsureChannel(@, scan.vals[1])]
    ELSE IF DetailsContains(event.Details, <<"receive", "by">>)
    THEN LET scan == DetailsSscanf(event.Details, FmtChannelRecv)
         IN  IF scan.err THEN r
             ELSE [r EXCEPT !.channels = EnsureChannel(@, scan.vals[1])]
    ELSE IF DetailsContains(event.Details, <<"closed", "by">>)
    THEN LET scan == DetailsSscanf(event.Details, FmtChannelClose)
         IN  IF scan.err THEN r
             ELSE [r EXCEPT !.channels = CloseChannel(@, scan.vals[1])]
    ELSE r

\* processGoroutineAndChannelEvents
processGoroutineAndChannelEvents(r, event) ==
    IF event.Type = GoroutineSwitch THEN ProcessGoroutineSwitch(r, event)
    ELSE IF event.Type = ChannelOperation THEN ProcessChannelOperation(r, event)
    ELSE r

\* events[i] with Go's indices, which start at 0.
EventAt(evs, i) == evs[i + 1]

\* The replayer's fields as one record.
Replayer ==
    [events |-> events, currentIdx |-> currentIdx, goroutines |-> goroutines,
     channels |-> channels, activeGoroutine |-> activeGoroutine]

\* The replayer's fields after the step are those of r; a method of the
\* replayer touches nothing else.
Becomes(r) ==
    /\ events' = r.events
    /\ currentIdx' = r.currentIdx
    /\ goroutines' = r.goroutines
    /\ channels' = r.channels
    /\ activeGoroutine' = r.activeGoroutine
    /\ UNCHANGED <<managerVars, recorderVars, securityVars, hookVars, debugger>>

\* NewBasicReplayer
NewBasicReplayer ==
    [events |-> <<>>, currentIdx |-> -1, goroutines |-> EmptyMap,
     channels |-> EmptyMap, activeGoroutine |-> 1]

\* A LoadEvents that resets the list and the cursor only, and keeps the
\* goroutines, the channels and the active goroutine of the session before.
LoadEventsResult_KeepsState(r, evs) ==
    [r |-> [r EXCEPT !.events = evs, !.currentIdx = -1], err |-> FALSE]

\* LoadEvents: the replayer after it and the error returned.  r is the
\* replayer before the call: none of its fields is kept.
LoadEventsResult(r, evs) ==
    [r |-> [events |-> evs, currentIdx |-> -1,
            goroutines |-> MapPut(EmptyMap, 1, GoroutineState(1, TRUE)),
            channels |-> EmptyMap, activeGoroutine |-> 1],
     err |-> FALSE]

\* A breakpointCheck argument: nil, or a predicate on events.  The predicates
\* of the model are those of event-type breakpoints (the event's Type is one
\* of types) and the closure handleContinue builds over the manager's
\* breakpoints bps.
NilCheck == [isNil |-> TRUE, types |-> {}]

Checks ==
    {[isNil |-> FALSE, types |-> T] :
        T \in {{}, {FuncEntry}, {GoroutineSwitch}, {ChannelOperation}}}

breakpointCheck(check, event) ==
    IF "bps" \in DOMAIN check THEN breakpointChecker(check.bps, event)
    ELSE event.Type \in check.types

\* A loop that asks the predicate before it processes the event, and so
\* returns at a breakpoint with the event's side effects not applied.
RECURSIVE ReplayLoop_ChecksFirst(_, _, _)
ReplayLoop_ChecksFirst(r, i, check) ==
    IF i >= Len(r.events) THEN [r |-> r, hit |-> FALSE, err |-> FALSE]
    ELSE LET event == EventAt(r.events, i)
             r1 == processGoroutineAndChannelEvents(r, event)
         IN  IF ~check.isNil /\ breakpointCheck(check, event)
             THEN [r |-> [r EXCEPT !.currentIdx = i], hit |-> TRUE, err |-> FALSE]
             ELSE ReplayLoop_ChecksFirst([r1 EXCEPT !.currentIdx = i], i + 1,
                                         check)

\* The loop of ReplayUntilBreakpoint from index i: the replayer after it,
\* whether it returned at a breakpoint, and the error returned.
RECURSIVE ReplayLoop(_, _, _)
ReplayLoop(r, i, check) ==
    IF i >= Len(r.events) THEN [r |-> r, hit |-> FALSE, err |-> FALSE]
    ELSE LET event == EventAt(r.events, i)
             r1 == processGoroutineAndChannelEvents(r, event)
         IN  IF ~check.isNil /\ breakpointCheck(check, event)
             THEN [r |-> [r1 EXCEPT !.currentIdx = i], hit |-> TRUE, err |-> FALSE]
             ELSE ReplayLoop([r1 EXCEPT !.currentIdx = i], i + 1, check)

\* ReplayUntilBreakpoint
ReplayUntilBreakpointResult(r, check) ==
    IF Len(r.events) = 0 THEN [r |-> r, hit |-> FALSE, err |-> FALSE]
    ELSE LET startIdx == IF r.currentIdx + 1 < 0 THEN 0 ELSE r.currentIdx + 1
         IN  ReplayLoop(r, startIdx, check)

\* ReplayForward
ReplayForwardResult(r) == ReplayUntilBreakpointResult(r, NilCheck)

\* A ReplayToEventIndex that only moves the cursor forward.
ReplayToEventIndexResult_ForwardOnly(r, idx) ==
    IF idx < 0 \/ idx >= Len(r.events) \/ idx < r.currentIdx
    THEN [r |-> r, err |-> FALSE]
    ELSE [r |-> [r EXCEPT !.currentIdx = idx], err |-> FALSE]

\* A ReplayToEventIndex that clamps an index outside a non-empty list.
ReplayToEventIndexResult_Clamps(r, idx) ==
    IF Len(r.events) = 0 THEN [r |-> r, err |-> FALSE]
    ELSE IF idx < 0 THEN [r |-> [r EXCEPT !.currentIdx = 0], err |-> FALSE]
    ELSE IF idx >= Len(r.events)
    THEN [r |-> [r EXCEPT !.currentIdx = Len(r.events) - 1], err |-> FALSE]
    ELSE [r |-> [r EXCEPT !.currentIdx = idx], err |-> FALSE]

\* A ReplayToEventIndex that returns an error for an index outside the list.
ReplayToEventIndexResult_RejectsInvalid(r, idx) ==
    IF idx < 0 \/ idx >= Len(r.events) THEN [r |-> r, err |-> TRUE]
    ELSE [r |-> [r EXCEPT !.currentIdx = idx], err |-> FALSE]

\* ReplayToEventIndex
ReplayToEventIndexResult(r, idx) ==
    IF idx < 0 \/ idx >= Len(r.events) THEN [r |-> r, err |-> FALSE]
    ELSE [r |-> [r EXCEPT !.currentIdx = idx], err |-> FALSE]

\* A StepBackward that refuses negative indices only.
StepBackwardResult_AcceptsZero(r, idx) ==
    IF idx < 0 THEN [r |-> r, ret |-> 0, err |-> TRUE]
    ELSE [r |-> [r EXCEPT !.currentIdx = idx - 1], ret |-> idx - 1, err |-> FALSE]

\* A StepBackward that, when it fails, puts the cursor at the first event.
StepBackwardResult_ResetsOnError(r, idx) ==
    IF idx <= 0 THEN [r |-> [r EXCEPT !.currentIdx = 0], ret |-> 0, err |-> TRUE]
    ELSE [r |-> [r EXCEPT !.currentIdx = idx - 1], ret |-> idx - 1, err |-> FALSE]

\* StepBackward: the replayer after it, the index returned and the error.
StepBackwardResult(r, idx) ==
    IF idx <= 0 THEN [r |-> r, ret |-> 0, err |-> TRUE]
    ELSE [r |-> [r EXCEPT !.currentIdx = idx - 1], ret |-> idx - 1, err |-> FALSE]

-----------------------------------------------------------------------------
(* The calls a client makes *)

\* The record of a call: op and arg name it (loaded is the list handed to
\* LoadEvents, spec the string handed to AddBreakpoint or AddWatchpoint, bp
\* the breakpoint these return), from is CurrentIndex() before it;
\* err and ret are what it returned (ret is the index StepBackward returns);
\* hit tells whether ReplayUntilBreakpoint returned at a breakpoint.  run, k and
\* n follow a run of consecutive calls StepBackward(CurrentIndex()): it began
\* at index k and n of its calls have succeeded.
Call(op, arg, err, ret, hit) ==
    [op |-> op, arg |-> arg, loaded |-> <<>>, spec |-> <<>>,
     bp |-> NilBreakpoint, from |-> currentIdx, err |-> err,
     ret |-> ret, hit |-> hit, run |-> FALSE, k |-> 0, n |-> 0]

Init ==
    /\ events = NewBasicReplayer.events
    /\ currentIdx = NewBasicReplayer.currentIdx
    /\ goroutines = NewBasicReplayer.goroutines
    /\ channels = NewBasicReplayer.channels
    /\ activeGoroutine = NewBasicReplayer.activeGoroutine
    /\ breakpoints = NewBreakpointManager.breakpoints
    /\ nextID = NewBreakpointManager.nextID
    /\ last = [op |-> "NewBasicReplayer", arg |-> 0, loaded |-> <<>>,
               spec |-> <<>>, bp |-> NilBreakpoint, from |-> -1,
               err |-> FALSE, ret |-> 0, hit |-> FALSE, run |-> FALSE,
               k |-> 0, n |-> 0]
    /\ SnapshotInterval = DefaultSnapshotInterval
    /\ globalRecorder = "nil"
    /\ inMemory = <<>>
    /\ disk = <<>>
    /\ fr = NilFileRecorder
    /\ clock = 1
    /\ producers = [p \in Producers |-> IdleProducer]
    /\ recorded = <<>>
    /\ got = <<>>
    /\ envelope = NoEnvelope
    /\ sfr = NilSecureFileRecorder
    /\ written = NothingWritten
    /\ CurrentOptions = DefaultInstrumentationOptions
    /\ call = NoCall
    /\ assign = NoAssignment
    /\ traceInt = NilTraceIntegration
    /\ tracers = [t \in Tracers |-> IdleTracer]
    /\ debugger = "nil"

LoadEvents(evs) ==
    LET res == LoadEventsResult(Replayer, evs)
    IN  /\ Becomes(res.r)
        /\ last' = [Call("LoadEvents", 0, res.err, 0, FALSE) EXCEPT !.loaded = evs]

ReplayForward ==
    LET res == ReplayForwardResult(Replayer)
    IN  /\ Becomes(res.r)
        /\ last' = Call("ReplayForward", 0, res.err, 0, res.hit)

ReplayUntilBreakpoint(check) ==
    LET res == ReplayUntilBreakpointResult(Replayer, check)
    IN  /\ Becomes(res.r)
        /\ last' = Call("ReplayUntilBreakpoint", 0, res.err, 0, res.hit)

ReplayToEventIndex(idx) ==
    LET res == ReplayToEventIndexResult(Replayer, idx)
    IN  /\ Becomes(res.r)
        /\ last' = Call("ReplayToEventIndex", idx, res.err, 0, FALSE)

StepBackward(idx) ==
    LET res == StepBackwardResult(Replayer, idx)
        inRun == idx = currentIdx
        cont == inRun /\ last.op = "StepBackward" /\ last.run /\ ~last.err
        done == IF cont THEN last.n ELSE 0
    IN  /\ Becomes(res.r)
        /\ last' = [Call("StepBackward", idx, res.err, res.ret, FALSE)
                        EXCEPT !.run = inRun,
                               !.k = IF cont THEN last.k
                                     ELSE IF inRun THEN currentIdx ELSE 0,
                               !.n = IF ~inRun THEN 0
                                     ELSE IF res.err THEN done ELSE done + 1]

Next ==
    \/ \E evs \in LoadArgs(events) : LoadEvents(evs)
    \/ ReplayForward
    \/ \E check \in Checks : ReplayUntilBreakpoint(check)
    \/ \E idx \in IdxArgs : ReplayToEventIndex(idx)
    \/ \E idx \in IdxArgs : StepBackward(idx)

Spec == Init /\ [][Next]_vars

-----------------------------------------------------------------------------
(* A debugging session: the breakpoint manager's API and the CLI commands   *)
(* that move the replayer (continue, step, backstep) over a loaded log      *)

\* instrumentation.FuncExit
FuncExitEvent(funcName, file, line) ==
    Event(FuncExit,
          <<"Exiting", funcName, "at", file, ":", Itoa(line)>>,
          file, line, funcName)

\* instrumentation.RecordStatement; description is the statement's text.
RecordStatementEvent(funcName, file, line, description) ==
    Event(StatementExecution,
          <<"Executing", "statement", "in", funcName, "at", file, ":",
            Itoa(line), ":">> \o description,
          file, line, funcName)

\* The events of the session's logs: main is entered, calls f, assigns x and
\* returns.
EnterMain == FuncEntryEvent("main", "main.go", 1)
CallF == RecordStatementEvent("main", "main.go", 2, <<"f()">>)
AssignX == RecordStatementEvent("main", "main.go", 3, <<"x", "=", "1">>)
ExitMain == FuncExitEvent("main", "Main.go", 3)

DebuggerVocabulary == {EnterMain, CallF, AssignX, ExitMain}

\* The logs a session is started on.
DebuggerLogs ==
    {<<EnterMain, CallF, AssignX, ExitMain>>,
     <<ExitMain, AssignX, EnterMain>>}

\* The strings handed to AddBreakpoint: func:main, main.go:3,
\* C:/x/y.go:10, the event type name FunctionExit, and main.go:abc.
Locations ==
    {<<"func", ":", "main">>,
     <<"main.go", ":", "3">>,
     <<"C", ":", "/", "x", "/", "y.go", ":", "1", "0">>,
     <<"FunctionExit">>,
     <<"main.go", ":", "abc">>}

\* The arguments of AddWatchpoint: x in each mode, and x with a kind that is
\* no watchpoint kind.
WatchArgs ==
    {[expression |-> <<"x">>, watchType |-> t] :
        t \in {WatchpointRead, WatchpointWrite, WatchpointReadWrite,
                FunctionBreakpoint}}

\* Identifiers handed to RemoveBreakpoint, EnableBreakpoint and
\* DisableBreakpoint: every identifier a session assigns, and one on each side.
BreakpointIdArgs == 0..(MaxBreakpoints + 1)

\* The manager's fields as one record.
Manager == [breakpoints |-> breakpoints, nextID |-> nextID]

\* The manager's fields after the step are those of bm; a method of the
\* manager touches nothing else.
ManagerBecomes(bm) ==
    /\ breakpoints' = bm.breakpoints
    /\ nextID' = bm.nextID
    /\ UNCHANGED <<replayerVars, recorderVars, securityVars, hookVars, debugger>>

AddBreakpoint(location) ==
    LET res == AddBreakpointResult(Manager, location)
    IN  /\ nextID <= MaxBreakpoints
        /\ ManagerBecomes(res.bm)
        /\ last' = [Call("AddBreakpoint", 0, res.err, 0, FALSE)
                        EXCEPT !.spec = location, !.bp = res.bp]

AddWatchpoint(expression, watchType) ==
    LET res == AddWatchpointResult(Manager, expression, watchType)
    IN  /\ nextID <= MaxBreakpoints
        /\ ManagerBecomes(res.bm)
        /\ last' = [Call("AddWatchpoint", watchType, res.err, 0, FALSE)
                        EXCEPT !.spec = expression, !.bp = res.bp]

RemoveBreakpoint(id) ==
    LET res == RemoveBreakpointResult(Manager, id)
    IN  /\ ManagerBecomes(res.bm)
        /\ last' = Call("RemoveBreakpoint", id, res.err, 0, FALSE)

EnableBreakpoint(id) ==
    LET res == EnableBreakpointResult(Manager, id)
    IN  /\ ManagerBecomes(res.bm)
        /\ last' = Call("EnableBreakpoint", id, res.err, 0, FALSE)

DisableBreakpoint(id) ==
    LET res == DisableBreakpointResult(Manager, id)
    IN  /\ ManagerBecomes(res.bm)
        /\ last' = Call("DisableBreakpoint", id, res.err, 0, FALSE)

\* handleContinue: ReplayUntilBreakpoint with the predicate over the manager's
\* breakpoints.
Continue ==
    LET breakpointCheckerArg == [isNil |-> FALSE, bps |-> breakpoints]
        res == ReplayUntilBreakpointResult(Replayer, breakpointCheckerArg)
    IN  /\ Becomes(res.r)
        /\ last' = Call("Continue", 0, res.err, 0, res.hit)

\* handleStep
Step ==
    LET nextIdx == currentIdx + 1
        res == ReplayToEventIndexResult(Replayer, nextIdx)
    IN  /\ Becomes(res.r)
        /\ last' = Call("Step", nextIdx, res.err, 0, FALSE)

\* handleBackstep
Backstep ==
    LET res == StepBackwardResult(Replayer, currentIdx)
    IN  /\ Becomes(res.r)
        /\ last' = Call("Backstep", currentIdx, res.err, res.ret, FALSE)

\* The session starts by loading a log into the new replayer.
DebuggerNext ==
    \/ \E log \in DebuggerLogs :
          last.op = "NewBasicReplayer" /\ LoadEvents(log)
    \/ \E location \in Locations : AddBreakpoint(location)
    \/ \E w \in WatchArgs : AddWatchpoint(w.expression, w.watchType)
    \/ \E id \in BreakpointIdArgs : RemoveBreakpoint(id)
    \/ \E id \in BreakpointIdArgs : EnableBreakpoint(id)
    \/ \E id \in BreakpointIdArgs : DisableBreakpoint(id)
    \/ Continue
    \/ Step
    \/ Backstep

DebuggerSpec == Init /\ [][DebuggerNext]_vars

-----------------------------------------------------------------------------
(* The command line of a session (pkg/debugger/cli.go): the bp and watch    *)
(* commands as the user types them, in a replay-only session and with a     *)
(* live adapter attached.  What the adapter answers is not the program's to *)
(* decide: each of its calls succeeds or fails.                             *)

\* The words "remove", "enable" and "disable" of the bp command.
IdCommands == {"remove", "enable", "disable"}

\* The words typed after bp: a location, one of remove, enable and disable
\* with an identifier, the same without one or with a word that is no number,
\* list, and nothing.
BpArgs ==
    {<<location>> : location \in Locations}
    \cup {<<<<command>>, <<Itoa(id)>>>> :
             command \in IdCommands, id \in BreakpointIdArgs}
    \cup {<<<<"remove">>>>, <<<<"enable">>, <<"x">>>>, <<<<"list">>>>, <<>>}

\* The words typed after watch.
WatchCommandArgs ==
    {<<<<"x">>>>, <<<<"-r">>, <<"x">>>>, <<<<"-w">>, <<"x">>>>,
     <<<<"-rw">>, <<"x">>>>, <<<<"-r">>>>, <<>>}

\* CLI.handleBreakpoint: the manager after it.  delveErr is whether the
\* adapter's SetFunctionBreakpoint or SetBreakpoint returns an error.
handleBreakpointResult(dbg, bm, args, delveErr) ==
    IF dbg = "nil" THEN bm
    ELSE IF Len(args) < 1 THEN bm
    ELSE LET locationArg == args[1]
         IN  IF HasPrefix(locationArg, <<"func", ":">>)
             THEN IF delveErr THEN bm
                  ELSE AddBreakpointResult(
                           bm, <<"func", ":">>
                               \o TrimPrefix(locationArg, <<"func", ":">>)).bm
             ELSE LET input == SlashesForward(locationArg)
                      lastColonIndex == LastIndex(input, ":")
                      file == SubSeq(input, 1, lastColonIndex)
                      lineStr == SubSeq(input, lastColonIndex + 2, Len(input))
                      line == StrconvAtoi(lineStr)
                  IN  IF lastColonIndex = -1 THEN bm
                      ELSE IF line.err THEN bm
                      ELSE IF delveErr THEN bm
                      ELSE AddBreakpointResult(
                               bm, file \o <<":">> \o FormatInt(line.val)).bm

\* CLI.handleBreakpointCommand: the manager after it.  The manager's method
\* is called before the adapter's, and its error is only printed.
handleBreakpointCommandResult(dbg, bm, args, delveErr) ==
    IF dbg = "nil" THEN bm
    ELSE IF Len(args) = 0 THEN bm
    ELSE LET command == args[1]
             id == StrconvAtoi(args[2])
         IN  IF command = <<"list">> THEN bm
             ELSE IF command \in {<<c>> : c \in IdCommands}
             THEN IF Len(args) < 2 THEN bm
                  ELSE IF id.err THEN bm
                  ELSE IF command = <<"remove">>
                  THEN RemoveBreakpointResult(bm, id.val).bm
                  ELSE IF command = <<"enable">>
                  THEN EnableBreakpointResult(bm, id.val).bm
                  ELSE DisableBreakpointResult(bm, id.val).bm
             ELSE handleBreakpointResult(dbg, bm, args, delveErr)

\* CLI.handleWatch: the manager after it.  The watchpoint goes to the manager
\* whether or not an adapter is attached and whatever the adapter answers.
handleWatchResult(bm, args) ==
    IF Len(args) < 1 THEN bm
    ELSE LET flag == args[1] \in {<<"-r">>, <<"-w">>, <<"-rw">>}
             watchType == IF args[1] = <<"-r">> THEN WatchpointRead
                          ELSE IF args[1] = <<"-w">> THEN WatchpointWrite
                          ELSE WatchpointReadWrite
         IN  IF flag /\ Len(args) < 2 THEN bm
             ELSE AddWatchpointResult(
                      bm, IF flag THEN args[2] ELSE args[1], watchType).bm

\* NewCLIWithDelve instead of NewCLI: the session has a live adapter.
NewCLIWithDelve ==
    /\ last.op = "NewBasicReplayer"
    /\ debugger' = "delve"
    /\ last' = Call("NewCLIWithDelve", 0, FALSE, 0, FALSE)
    /\ UNCHANGED <<replayerVars, managerVars, recorderVars, securityVars,
                   hookVars>>

\* The command bp followed by args.
handleBreakpointCommand(args, delveErr) ==
    /\ nextID <= MaxBreakpoints
    /\ delveErr => debugger # "nil"
    /\ ManagerBecomes(handleBreakpointCommandResult(debugger, Manager, args,
                                                    delveErr))
    /\ last' = [Call("bp", 0, delveErr, 0, FALSE) EXCEPT !.spec = args]

\* The command watch followed by args.
handleWatch(args) ==
    /\ nextID <= MaxBreakpoints
    /\ ManagerBecomes(handleWatchResult(Manager, args))
    /\ last' = [Call("watch", 0, FALSE, 0, FALSE) EXCEPT !.spec = args]

CLINext ==
    \/ NewCLIWithDelve
    \/ \E log \in DebuggerLogs :
          /\ last.op \in {"NewBasicReplayer", "NewCLIWithDelve"}
          /\ LoadEvents(log)
    \/ \E args \in BpArgs, delveErr \in BOOLEAN :
          handleBreakpointCommand(args, delveErr)
    \/ \E args \in WatchCommandArgs : handleWatch(args)
    \/ Continue

CLISpec == Init /\ [][CLINext]_vars

-----------------------------------------------------------------------------
(* A file recorder and its client: create, record, read, clear, close and   *)
(* create again on the same path                                             *)

\* The events a client records: a channel send, a statement whose text holds
\* quotes and a line break, and a send of a value of 64 KiB.
SendA == StampedEvent(1, ChannelSendEvent(1, 1, <<"a">>))
AssignS ==
    StampedEvent(2, RecordStatementEvent("main", "main.go", 2,
                        <<"s", "=", "\"", "a", "\n", "b", "\"">>))
SendLarge == StampedEvent(3, ChannelSendEvent(1, 2, <<LargeValue>>))

RecorderVocabulary == {SendA, AssignS, SendLarge}

\* The values a program gives recorder.SnapshotInterval.
SnapshotIntervals == {0, 1, 2}

CompressionTypes == {NoCompression, ZstdCompression}

\* The file recorder's fields and the file at its path as one record.
FileRecorder ==
    [disk |-> disk, file |-> fr.file, writer |-> fr.writer,
     bufWriter |-> fr.bufWriter, compressionType |-> fr.compressionType,
     eventCount |-> fr.eventCount, writerClosed |-> fr.writerClosed]

\* The file recorder and its file after the step are those of s.
FileRecorderBecomes(s) ==
    /\ disk' = s.disk
    /\ fr' = [file |-> s.file, writer |-> s.writer, bufWriter |-> s.bufWriter,
              compressionType |-> s.compressionType,
              eventCount |-> s.eventCount, writerClosed |-> s.writerClosed]

\* recorder.SnapshotInterval = n, before a recorder is made.
SetSnapshotInterval(n) ==
    /\ fr.file = "nil" /\ globalRecorder = "nil"
    /\ SnapshotInterval = DefaultSnapshotInterval
    /\ SnapshotInterval' = n
    /\ last' = Call("SetSnapshotInterval", n, FALSE, 0, FALSE)
    /\ UNCHANGED <<replayerVars, managerVars, securityVars, hookVars, debugger, globalRecorder, inMemory, disk,
                   fr, clock, producers, recorded, got>>

\* NewFileRecorderWithOptions: the first recorder on the path, or the next one
\* with the same options after a Close.
NewFileRecorderWithOptions(compressionType) ==
    /\ globalRecorder = "nil"
    /\ \/ fr.file = "nil"
       \/ fr.file = "closed" /\ compressionType = fr.compressionType
    /\ FileRecorderBecomes(NewFileRecorderWithOptionsResult(disk, compressionType))
    /\ last' = Call("NewFileRecorderWithOptions", compressionType, FALSE, 0, FALSE)
    /\ UNCHANGED <<replayerVars, managerVars, securityVars, hookVars, debugger, SnapshotInterval, globalRecorder,
                   inMemory, clock, producers, recorded, got>>

\* FileRecorder.RecordEvent, called by one client; fault is the write to the
\* file that fails during the call, if one does (without compression every
\* flush writes to the file; the zstd encoder holds the bytes until it is
\* closed).
RecordEvent(e, fault) ==
    LET res == RecordEventResult(FileRecorder, e, SnapshotInterval, fault)
    IN  /\ fr.file \in {"open", "failed"} /\ globalRecorder = "nil"
        /\ Len(recorded) < MaxRecords
        /\ fault # "none" =>
               fr.file = "open" /\ fr.compressionType = NoCompression
        /\ fault = "marker" => res.marker
        /\ FileRecorderBecomes(res.s)
        /\ recorded' = IF res.err THEN recorded ELSE Append(recorded, e)
        /\ last' = Call("RecordEvent", e.ID, res.err, 0, FALSE)
        /\ UNCHANGED <<replayerVars, managerVars, securityVars, hookVars, debugger, SnapshotInterval,
                       globalRecorder, inMemory, clock, producers, got>>

\* FileRecorder.GetEvents
GetEvents ==
    LET res == GetEventsResult(FileRecorder)
    IN  /\ fr.file \in {"open", "failed"} /\ globalRecorder = "nil"
        /\ FileRecorderBecomes(res.s)
        /\ got' = res.events
        /\ last' = Call("GetEvents", 0, FALSE, 0, FALSE)
        /\ UNCHANGED <<replayerVars, managerVars, securityVars, hookVars, debugger, SnapshotInterval,
                       globalRecorder, inMemory, clock, producers, recorded>>

\* FileRecorder.Clear
Clear ==
    /\ fr.file \in {"open", "failed"} /\ globalRecorder = "nil"
    /\ FileRecorderBecomes(ClearResult(FileRecorder))
    /\ recorded' = <<>>
    /\ got' = <<>>
    /\ last' = Call("Clear", 0, FALSE, 0, FALSE)
    /\ UNCHANGED <<replayerVars, managerVars, securityVars, hookVars, debugger, SnapshotInterval, globalRecorder,
                   inMemory, clock, producers>>

\* FileRecorder.Close
Close ==
    LET res == CloseResult(FileRecorder)
    IN  /\ fr.file \in {"open", "failed"} /\ globalRecorder = "nil"
        /\ FileRecorderBecomes(res.s)
        /\ last' = Call("Close", 0, res.err, 0, FALSE)
        /\ UNCHANGED <<replayerVars, managerVars, securityVars, hookVars, debugger, SnapshotInterval,
                       globalRecorder, inMemory, clock, producers, recorded,
                       got>>

RecorderNext ==
    \/ \E n \in SnapshotIntervals : SetSnapshotInterval(n)
    \/ \E compressionType \in CompressionTypes :
          NewFileRecorderWithOptions(compressionType)
    \/ \E e \in RecorderVocabulary, fault \in WriteFaults : RecordEvent(e, fault)
    \/ GetEvents
    \/ Clear
    \/ Close

RecorderSpec == Init /\ [][RecorderNext]_vars

\* FileRecorder.GetEvents on a path that cannot be opened for reading (the
\* file was removed or made unreadable after the recorder opened it).  The
\* call returns no error; err in the record of the call tells that the open
\* failed.
GetEventsOpenFails ==
    LET res == GetEventsOpenFailsResult(FileRecorder)
    IN  /\ fr.file \in {"open", "failed"} /\ globalRecorder = "nil"
        /\ FileRecorderBecomes(res.s)
        /\ got' = res.events
        /\ last' = Call("GetEvents", 0, TRUE, 0, FALSE)
        /\ UNCHANGED <<replayerVars, managerVars, securityVars, hookVars,
                       debugger, SnapshotInterval, globalRecorder, inMemory,
                       clock, producers, recorded>>

\* The same client on a path whose file may be unreadable.
ReadFaultNext ==
    \/ RecorderNext
    \/ GetEventsOpenFails

ReadFaultSpec == Init /\ [][ReadFaultNext]_vars

-----------------------------------------------------------------------------
(* A client that makes a SecureEvent from an event, changes it as the       *)
(* package's tests do, and asks for the original event                      *)

\* The events a client secures: a send, a statement with a password, one
\* with a password in capitals and one with a quoted password.
Login ==
    StampedEvent(2, RecordStatementEvent("main", "main.go", 2,
                        <<"password", "=", "hunter2">>))
LoginCapitals ==
    StampedEvent(3, RecordStatementEvent("main", "main.go", 3,
                        <<"Password", ":", "hunter2">>))
LoginQuoted ==
    StampedEvent(4, RecordStatementEvent("main", "main.go", 4,
                        <<"password", "=", "\"", "hunter2", "\"">>))

SecureVocabulary == {SendA, Login, LoginCapitals, LoginQuoted}

\* The options of the model: every subset of the three features, with a key
\* of 16 bytes or of 5.
SecurityOptionSets ==
    {SecurityOptions(encryption, key, redaction, integrity) :
        encryption \in BOOLEAN, key \in {"key16", "key5"},
        redaction \in BOOLEAN, integrity \in BOOLEAN}

\* The nonces rand.Reader gives.
Nonces == {"nonce1", "nonce2"}

EnvelopeFrame ==
    UNCHANGED <<replayerVars, managerVars, recorderVars, hookVars, debugger, sfr, written>>

\* secureEvent, err := SecureEventFromEvent(event, opts), once.
SecureEventFromEvent(event, opts, nonce) ==
    LET res == SecureEventFromEventResult(event, opts, nonce)
    IN  /\ ~envelope.made
        /\ envelope' = [NoEnvelope EXCEPT !.made = TRUE, !.event = event,
                                          !.opts = opts, !.err = res.err,
                                          !.se = res.se]
        /\ last' = Call("SecureEventFromEvent", event.ID, res.err, 0, FALSE)
        /\ EnvelopeFrame

\* A write to a field of secureEvent (security_test.go:194).
TamperEnvelope(kind) ==
    /\ envelope.made /\ ~envelope.err /\ ~envelope.unwrapped
    /\ envelope.tampered < MaxTampers
    /\ TamperSecureEvent(envelope.se, kind) # envelope.se
    /\ envelope' = [envelope EXCEPT !.se = TamperSecureEvent(@, kind),
                                    !.tampered = @ + 1]
    /\ last' = Call("TamperEnvelope", 0, FALSE, 0, FALSE)
    /\ EnvelopeFrame

\* secureEvent.GetOriginalEvent(opts), with the options of the writer or with
\* another key.
GetOriginalEvent(otherKey) ==
    LET opts == IF otherKey
                THEN [envelope.opts EXCEPT !.EncryptionKey = "other16"]
                ELSE envelope.opts
        res == GetOriginalEventResult(envelope.se, opts)
    IN  /\ envelope.made /\ ~envelope.err
        /\ envelope' = [envelope EXCEPT !.unwrapped = TRUE, !.readOpts = opts,
                                        !.result = res]
        /\ last' = Call("GetOriginalEvent", 0, res.err, 0, FALSE)
        /\ EnvelopeFrame

EnvelopeNext ==
    \/ \E event \in SecureVocabulary, opts \in SecurityOptionSets,
          nonce \in Nonces : SecureEventFromEvent(event, opts, nonce)
    \/ \E kind \in TamperKinds : TamperEnvelope(kind)
    \/ \E otherKey \in BOOLEAN : GetOriginalEvent(otherKey)

EnvelopeSpec == Init /\ [][EnvelopeNext]_vars

-----------------------------------------------------------------------------
(* A secure file recorder and its client, and someone who changes the       *)
(* lines of the file                                                         *)

\* The options the recorders of the model are made with: no feature,
\* integrity alone, encryption and integrity with a key of 16 bytes and with
\* one of 5, redaction and integrity, and all three.
RecorderSecurityOptions ==
    {SecurityOptions(FALSE, "", FALSE, FALSE),
     SecurityOptions(FALSE, "", FALSE, TRUE),
     SecurityOptions(TRUE, "key16", FALSE, TRUE),
     SecurityOptions(TRUE, "key5", FALSE, TRUE),
     SecurityOptions(FALSE, "", TRUE, TRUE),
     SecurityOptions(TRUE, "key16", TRUE, TRUE)}

\* The events recorded to a secure recorder.
SecureRecorderVocabulary == {SendA, Login}

\* The secure recorder's fields and the file at its path as one record.
SecureFileRecorder ==
    [disk |-> disk, file |-> sfr.file, writer |-> sfr.writer,
     bufWriter |-> sfr.bufWriter, compressionType |-> sfr.compressionType,
     eventCount |-> sfr.eventCount, writerClosed |-> sfr.writerClosed,
     securityOpts |-> sfr.securityOpts]

\* The secure recorder and its file after the step are those of s.
SecureFileRecorderBecomes(s) ==
    /\ disk' = s.disk
    /\ sfr' = [file |-> s.file, writer |-> s.writer, bufWriter |-> s.bufWriter,
               compressionType |-> s.compressionType,
               eventCount |-> s.eventCount, writerClosed |-> s.writerClosed,
               securityOpts |-> s.securityOpts]

SecureFrame ==
    UNCHANGED <<replayerVars, managerVars, hookVars, debugger, SnapshotInterval,
                globalRecorder, inMemory, fr, clock, producers, envelope>>

\* The lines events() finds in the file once the writers are flushed.
StoredLines ==
    Once(LAMBDA flushed : FileLines(flushed),
         BufWriterFlush(CloseCompressedWriter(SecureFileRecorder)))

\* recorder.SnapshotInterval = n, before a secure recorder is made.
SetSecureSnapshotInterval(n) ==
    /\ sfr.file = "nil"
    /\ SnapshotInterval = DefaultSnapshotInterval
    /\ SnapshotInterval' = n
    /\ last' = Call("SetSnapshotInterval", n, FALSE, 0, FALSE)
    /\ UNCHANGED <<replayerVars, managerVars, securityVars, hookVars, debugger, globalRecorder,
                   inMemory, disk, fr, clock, producers, recorded, got>>

\* NewSecureFileRecorderWithOptions: the first recorder on the path, or the
\* next one with the same options after a Close.
NewSecureFileRecorderWithOptions(securityOpts, compressionType) ==
    /\ \/ sfr.file = "nil"
       \/ /\ sfr.file = "closed" /\ compressionType = sfr.compressionType
          /\ securityOpts = sfr.securityOpts
    /\ SecureFileRecorderBecomes(
           NewSecureFileRecorderWithOptionsResult(disk, securityOpts,
                                                  compressionType))
    /\ last' = Call("NewSecureFileRecorderWithOptions", compressionType, FALSE,
                    0, FALSE)
    /\ UNCHANGED <<recorded, got, written>>
    /\ SecureFrame

\* SecureFileRecorder.RecordEvent; fault is the write to the file that fails
\* during the call, if one does.  The value of the nonce has no bearing on
\* the recorder and one stands for all.
SecureRecordEvent(e, fault) ==
    /\ sfr.file \in {"open", "failed"}
    /\ Len(recorded) < MaxSecureRecords
    /\ written.tampers = 0
    /\ fault # "none" => sfr.file = "open" /\ sfr.compressionType = NoCompression
    /\ \E res \in {SecureRecordEventResult(SecureFileRecorder, e,
                                          SnapshotInterval, "nonce1", fault)} :
        /\ fault = "event" => ~res.err \/ res.s.file = "failed"
        /\ fault = "marker" => res.marker /\ res.s.file = "failed"
        /\ SecureFileRecorderBecomes(res.s)
        /\ recorded' = IF res.err THEN recorded ELSE Append(recorded, e)
        /\ written' = [written EXCEPT !.lines = @ \o res.lines]
        /\ last' = Call("SecureRecordEvent", e.ID, res.err, 0, FALSE)
        /\ UNCHANGED got
        /\ SecureFrame

\* SecureFileRecorder.GetEvents
SecureGetEvents ==
    /\ sfr.file \in {"open", "failed"}
    /\ \E res \in {SecureGetEventsResult(SecureFileRecorder)} :
        /\ SecureFileRecorderBecomes(res.s)
        /\ got' = res.events
        /\ last' = Call("SecureGetEvents", 0, FALSE, 0, FALSE)
        /\ UNCHANGED <<recorded, written>>
        /\ SecureFrame

\* SecureFileRecorder.DetectTampering
DetectTampering ==
    /\ sfr.file \in {"open", "failed", "closed"}
    /\ last' = Call("DetectTampering", 0, FALSE, 0,
                    DetectTamperingResult(SecureFileRecorder))
    /\ UNCHANGED <<disk, sfr, recorded, got, written>>
    /\ SecureFrame

\* SecureFileRecorder.Clear
SecureClear ==
    /\ sfr.file \in {"open", "failed"}
    /\ SecureFileRecorderBecomes(ClearResult(SecureFileRecorder))
    /\ recorded' = <<>>
    /\ got' = <<>>
    /\ written' = NothingWritten
    /\ last' = Call("SecureClear", 0, FALSE, 0, FALSE)
    /\ SecureFrame

\* SecureFileRecorder.Close
SecureClose ==
    LET res == CloseResult(SecureFileRecorder)
    IN  /\ sfr.file \in {"open", "failed"}
        /\ SecureFileRecorderBecomes(res.s)
        /\ last' = Call("SecureClose", 0, res.err, 0, FALSE)
        /\ UNCHANGED <<recorded, got, written>>
        /\ SecureFrame

\* Someone with access to the file changes line i of it (and writes the file
\* back in the recorder's compression) after the recorder is closed; the
\* changes are made to one line, and nothing is recorded after them.
Tamper(i, kind) ==
    /\ sfr.file = "closed"
    /\ written.tampers < MaxTampers
    /\ written.line \in {0, i}
    /\ \E lines \in {StoredLines} :
        /\ i \in 1..Len(lines)
        /\ \E changed \in {[lines EXCEPT ![i] = TamperLine(lines[i], kind)]} :
            /\ changed # lines
            /\ disk' = <<[z |-> sfr.compressionType = ZstdCompression,
                          data |-> JoinLines(changed)]>>
            /\ written' = [written EXCEPT !.tampers = @ + 1, !.line = i]
            /\ last' = Call("Tamper", i, FALSE, 0, FALSE)
            /\ UNCHANGED <<sfr, recorded, got>>
            /\ SecureFrame

SecureNext ==
    \/ SetSecureSnapshotInterval(1)
    \/ \E securityOpts \in RecorderSecurityOptions,
          compressionType \in CompressionTypes :
          NewSecureFileRecorderWithOptions(securityOpts, compressionType)
    \/ \E e \in SecureRecorderVocabulary, fault \in WriteFaults :
          SecureRecordEvent(e, fault)
    \/ SecureGetEvents
    \/ DetectTampering
    \/ SecureClear
    \/ SecureClose

SecureSpec == Init /\ [][SecureNext]_vars

\* The same with someone who changes the file.
TamperNext ==
    \/ SecureNext
    \/ \E i \in 1..MaxTamperedLine, kind \in LineTamperKinds :
          Tamper(i, kind)

TamperSpec == Init /\ [][TamperNext]_vars

-----------------------------------------------------------------------------
(* Producer threads that emit through the instrumentation surface into one  *)
(* shared recorder.  No method of a recorder takes a lock, so a thread's    *)
(* call advances one statement at a time between the statements of the      *)
(* others.                                                                   *)

\* The recorders InitInstrumentation is handed.
SharedRecorders == {"memory", "file"}

\* instrumentation.InitInstrumentation(r): r is a new in-memory recorder or
\* the file recorder.
InitInstrumentation(r) ==
    /\ globalRecorder = "nil"
    /\ r = "file" => fr.file = "open"
    /\ r = "memory" => fr.file = "nil" /\ SnapshotInterval = DefaultSnapshotInterval
    /\ globalRecorder' = r
    /\ last' = Call("InitInstrumentation", 0, FALSE, 0, FALSE)
    /\ UNCHANGED <<replayerVars, managerVars, securityVars, hookVars, debugger, SnapshotInterval, inMemory,
                   disk, fr, clock, producers, recorded, got>>

\* The nanosecond clock advances.
Tick ==
    /\ globalRecorder # "nil"
    /\ clock < MaxClock
    /\ clock' = clock + 1
    /\ UNCHANGED <<replayerVars, managerVars, securityVars, hookVars, debugger, last, SnapshotInterval,
                   globalRecorder, inMemory, disk, fr, producers, recorded,
                   got>>

\* What a step of producer p leaves alone besides the recorder it writes.
ProducerFrame ==
    UNCHANGED <<replayerVars, managerVars, securityVars, hookVars, debugger, last, SnapshotInterval,
                globalRecorder, clock, got>>

\* The producer's call returns nil: the event counts as recorded.
Returns(p) ==
    /\ producers' = [producers EXCEPT ![p].pc = "idle"]
    /\ recorded' = Append(recorded, producers[p].e)

\* instrumentation.ChannelSend(1, p, "a") up to its call of RecordEvent: the
\* event is built, with the clock's reading as its ID.
ChannelSend(p) ==
    /\ globalRecorder # "nil"
    /\ producers[p].pc = "idle" /\ producers[p].left > 0
    /\ producers' = [producers EXCEPT
           ![p].pc = "RecordEvent",
           ![p].e = StampedEvent(clock, ChannelSendEvent(1, p, <<"a">>)),
           ![p].left = @ - 1]
    /\ ProducerFrame
    /\ UNCHANGED <<inMemory, disk, fr, recorded>>

\* InMemoryRecorder.RecordEvent, append(r.events, e): r.events is read.
LoadEventsSlice(p) ==
    /\ globalRecorder = "memory" /\ producers[p].pc = "RecordEvent"
    /\ producers' = [producers EXCEPT ![p].pc = "append",
                                      ![p].slice = inMemory]
    /\ ProducerFrame
    /\ UNCHANGED <<inMemory, disk, fr, recorded>>

\* InMemoryRecorder.RecordEvent, r.events = ...: the slice read, with the
\* event after it, is stored.
StoreEventsSlice(p) ==
    /\ globalRecorder = "memory" /\ producers[p].pc = "append"
    /\ inMemory' = Append(producers[p].slice, producers[p].e)
    /\ Returns(p)
    /\ ProducerFrame
    /\ UNCHANGED <<disk, fr>>

\* The event whose line producer p is writing: its own, or the marker of the
\* snapshot it makes.
LineEvent(p) ==
    IF producers[p].pc \in {"RecordEvent", "newline", "flush"}
    THEN producers[p].e
    ELSE SnapshotMarker(CreateSnapshot(producers[p].e.ID))

\* fr.writer.Write(data), in RecordEvent and in recordSnapshotEvent.
WriteData(p) ==
    /\ globalRecorder = "file"
    /\ producers[p].pc \in {"RecordEvent", "recordSnapshotEvent"}
    /\ FileRecorderBecomes(WriterWrite(FileRecorder, Marshal(LineEvent(p))))
    /\ producers' = [producers EXCEPT ![p].pc =
           IF @ = "RecordEvent" THEN "newline" ELSE "snapshotNewline"]
    /\ ProducerFrame
    /\ UNCHANGED <<inMemory, recorded>>

\* fr.writer.Write([]byte{'\n'})
WriteNewline(p) ==
    /\ globalRecorder = "file"
    /\ producers[p].pc \in {"newline", "snapshotNewline"}
    /\ FileRecorderBecomes(WriterWrite(FileRecorder, <<"\n">>))
    /\ producers' = [producers EXCEPT ![p].pc =
           IF @ = "newline" THEN "flush" ELSE "snapshotFlush"]
    /\ ProducerFrame
    /\ UNCHANGED <<inMemory, recorded>>

\* fr.bufWriter.Flush() of RecordEvent
Flush(p) ==
    /\ globalRecorder = "file" /\ producers[p].pc = "flush"
    /\ FileRecorderBecomes(BufWriterFlush(FileRecorder))
    /\ producers' = [producers EXCEPT ![p].pc = "eventCount"]
    /\ ProducerFrame
    /\ UNCHANGED <<inMemory, recorded>>

\* fr.eventCount++: the count is read.
LoadEventCount(p) ==
    /\ globalRecorder = "file" /\ producers[p].pc = "eventCount"
    /\ producers' = [producers EXCEPT ![p].pc = "increment",
                                      ![p].count = fr.eventCount]
    /\ ProducerFrame
    /\ UNCHANGED <<inMemory, disk, fr, recorded>>

\* fr.eventCount++: the count read, plus one, is stored.
StoreEventCount(p) ==
    /\ globalRecorder = "file" /\ producers[p].pc = "increment"
    /\ fr' = [fr EXCEPT !.eventCount = producers[p].count + 1]
    /\ producers' = [producers EXCEPT ![p].pc = "interval"]
    /\ ProducerFrame
    /\ UNCHANGED <<inMemory, disk, recorded>>

\* if SnapshotInterval > 0 && fr.eventCount%SnapshotInterval == 0: the call
\* goes on to recordSnapshotEvent, or returns.
CheckInterval(p) ==
    /\ globalRecorder = "file" /\ producers[p].pc = "interval"
    /\ IF SnapshotInterval > 0 /\ fr.eventCount % SnapshotInterval = 0
       THEN /\ producers' = [producers EXCEPT ![p].pc = "recordSnapshotEvent"]
            /\ UNCHANGED recorded
       ELSE Returns(p)
    /\ ProducerFrame
    /\ UNCHANGED <<inMemory, disk, fr>>

\* fr.bufWriter.Flush() of recordSnapshotEvent, after which RecordEvent
\* returns.
FlushSnapshot(p) ==
    /\ globalRecorder = "file" /\ producers[p].pc = "snapshotFlush"
    /\ FileRecorderBecomes(BufWriterFlush(FileRecorder))
    /\ Returns(p)
    /\ ProducerFrame
    /\ UNCHANGED inMemory

ProducersNext ==
    \/ \E n \in SnapshotIntervals : SetSnapshotInterval(n)
    \/ \E compressionType \in CompressionTypes :
          NewFileRecorderWithOptions(compressionType)
    \/ \E r \in SharedRecorders : InitInstrumentation(r)
    \/ Tick
    \/ \E p \in Producers :
          \/ ChannelSend(p)
          \/ LoadEventsSlice(p)
          \/ StoreEventsSlice(p)
          \/ WriteData(p)
          \/ WriteNewline(p)
          \/ Flush(p)
          \/ LoadEventCount(p)
          \/ StoreEventCount(p)
          \/ CheckInterval(p)
          \/ FlushSnapshot(p)

ProducersSpec == Init /\ [][ProducersNext]_vars

-----------------------------------------------------------------------------
(* Programs that set the instrumentation options, ask the filter about     *)
(* packages and call the emission functions, one call after the other       *)

\* Patterns: a package, a package with the wildcard suffix, a glob, the bare
\* wildcard suffix, and a package of the standard library.
PatternDirect == <<"g", ".", "c", "/", "p">>
PatternPrefix == <<"g", ".", "c", "/", "p", ".", ".", ".">>
PatternGlob == <<"g", ".", "c", "/", "*">>
PatternAll == Ellipsis
PatternStdlib == <<"f">>

IncludeLists == {<<>>, <<PatternPrefix>>, <<PatternGlob, PatternStdlib>>}

ExcludeLists == {<<>>, <<PatternDirect>>, <<PatternAll>>, <<PatternGlob>>}

OptionSets ==
    {InstrumentationOptions(enabled, includePackages, excludePackages, stdlib) :
        enabled \in BOOLEAN, includePackages \in IncludeLists,
        excludePackages \in ExcludeLists, stdlib \in BOOLEAN}

\* The full names of the functions that call the hooks (runtime.FuncForPC):
\* in packages g.c/p, g.c/pq, g.c/p/i and in f of the standard library.
Callers ==
    {<<"g", ".", "c", "/", "p", ".", "F">>,
     <<"g", ".", "c", "/", "p", "q", ".", "F">>,
     <<"g", ".", "c", "/", "p", "/", "i", ".", "F">>,
     <<"f", ".", "F">>}

\* The package paths the filter is asked about: those of Callers, and the
\* empty path.
Packages == {extractPackagePath(caller) : caller \in Callers} \cup {<<>>}

\* The funcName arguments of FuncEntry, FuncExit and RecordStatement.
FuncNames == {"p.F", "F", "TestF"}

\* The emission functions of concurrency.go, each with the event it records
\* for the arguments of the calls here.
ConcurrencyHooks ==
    {"GoroutineCreate", "GoroutineSwitch", "ChannelSend", "ChannelRecv",
     "ChannelClose", "MutexLock", "MutexUnlock"}

ConcurrencyEvent(fn) ==
    CASE fn = "GoroutineCreate" -> GoroutineCreateEvent(2)
      [] fn = "GoroutineSwitch" -> GoroutineSwitchEvent(1, 2)
      [] fn = "ChannelSend" -> ChannelSendEvent(1, 1, <<"a">>)
      [] fn = "ChannelRecv" -> ChannelRecvEvent(1, 2, <<"a">>)
      [] fn = "ChannelClose" -> ChannelCloseEvent(1, 1)
      [] fn = "MutexLock" ->
            Event(SyncOperation,
                  <<"Mutex", "1", ":", "locked", "by", "goroutine", "1">>,
                  "", 0, "")
      [] OTHER ->
            Event(SyncOperation,
                  <<"Mutex", "1", ":", "unlocked", "by", "goroutine", "1">>,
                  "", 0, "")

\* instrumentation.RecordStatement
StatementEvent(funcName, file, line, description) ==
    Event(StatementExecution,
          <<"Executing", "statement", "in", funcName, "at", file, ":",
            Itoa(line), ":", description>>,
          file, line, funcName)

\* ShouldInstrument(packagePath), with CurrentOptions as it is.
ShouldInstrumentNow(packagePath) ==
    ShouldInstrumentWith(CurrentOptions, packagePath)

FilterFrame ==
    UNCHANGED <<replayerVars, managerVars, securityVars, traceVars, debugger,
                SnapshotInterval, disk, fr, clock, producers, recorded, got,
                call, assign>>

\* A call of a hook by a function of full name caller: what it was called
\* with and whether it recorded its event.
HookCall(fn, funcName, caller, records) ==
    [Call(fn, caller, FALSE, 0, records) EXCEPT !.spec = funcName]

\* if globalRecorder != nil { globalRecorder.RecordEvent(e) } on the
\* in-memory recorder, when records.
HookRecords(records, e) ==
    inMemory' = IF records /\ globalRecorder # "nil"
                THEN Append(inMemory, StampedEvent(clock, e))
                ELSE inMemory

\* SetInstrumentationOptions(options), with no other call in progress.
SetInstrumentationOptions(options) ==
    /\ call.pc = "idle" /\ assign.pc = "idle"
    /\ CurrentOptions' = options
    /\ last' = Call("SetInstrumentationOptions", options, FALSE, 0, FALSE)
    /\ FilterFrame
    /\ UNCHANGED <<globalRecorder, inMemory>>

\* ShouldInstrument(packagePath), with no other call in progress.
ShouldInstrument(packagePath) ==
    /\ call.pc = "idle" /\ assign.pc = "idle"
    /\ last' = Call("ShouldInstrument", packagePath, FALSE, 0,
                    ShouldInstrumentNow(packagePath))
    /\ FilterFrame
    /\ UNCHANGED <<CurrentOptions, globalRecorder, inMemory>>

\* FuncEntry(funcName, file, line) and FuncExit(funcName, file, line), type
\* telling which.
FuncHook(type, funcName, caller) ==
    LET records ==
            IF HasPrefix(Spell(funcName), <<"T", "e", "s", "t">>) THEN TRUE
            ELSE ShouldInstrumentNow(getPackagePathFromFunc(funcName, caller))
        e == IF type = FuncEntry THEN FuncEntryEvent(funcName, "main.go", 1)
             ELSE FuncExitEvent(funcName, "main.go", 1)
    IN  /\ Len(inMemory) < MaxEmits
        /\ HookRecords(records, e)
        /\ last' = HookCall(IF type = FuncEntry THEN "FuncEntry" ELSE "FuncExit",
                            funcName, caller, records /\ globalRecorder # "nil")
        /\ FilterFrame
        /\ UNCHANGED <<CurrentOptions, globalRecorder>>

\* RecordStatement(funcName, file, line, description)
RecordStatement(funcName, caller) ==
    LET records == ShouldInstrumentNow(getPackagePathFromFunc(funcName, caller))
    IN  /\ Len(inMemory) < MaxEmits
        /\ HookRecords(records, StatementEvent(funcName, "main.go", 1, "x"))
        /\ last' = HookCall("RecordStatement", funcName, caller,
                            records /\ globalRecorder # "nil")
        /\ FilterFrame
        /\ UNCHANGED <<CurrentOptions, globalRecorder>>

\* shouldInstrumentCaller(), two frames below the function of full name
\* caller.
shouldInstrumentCaller(caller) ==
    ShouldInstrumentNow(extractPackagePath(caller))

\* GoroutineCreate, GoroutineSwitch, ChannelSend, ChannelRecv, ChannelClose,
\* MutexLock and MutexUnlock, fn telling which.
ConcurrencyHook(fn, caller) ==
    LET records == shouldInstrumentCaller(caller)
    IN  /\ Len(inMemory) < MaxEmits
        /\ HookRecords(records, ConcurrencyEvent(fn))
        /\ last' = HookCall(fn, "", caller, records /\ globalRecorder # "nil")
        /\ FilterFrame
        /\ UNCHANGED <<CurrentOptions, globalRecorder>>

\* A program that sets the options and asks the filter.
FilterNext ==
    \/ \E options \in OptionSets : SetInstrumentationOptions(options)
    \/ \E packagePath \in Packages : ShouldInstrument(packagePath)

FilterSpec == Init /\ [][FilterNext]_vars

\* A program that sets the options and calls the emission functions.
HooksNext ==
    \/ InitInstrumentation("memory")
    \/ \E options \in OptionSets : SetInstrumentationOptions(options)
    \/ \E type \in {FuncEntry, FuncExit}, funcName \in FuncNames,
          caller \in Callers : FuncHook(type, funcName, caller)
    \/ \E funcName \in FuncNames, caller \in Callers :
          RecordStatement(funcName, caller)
    \/ \E fn \in ConcurrencyHooks, caller \in Callers : ConcurrencyHook(fn, caller)

HooksSpec == Init /\ [][HooksNext]_vars

-----------------------------------------------------------------------------
(* A goroutine in ShouldInstrument while another is in                      *)
(* SetInstrumentationOptions.  CurrentOptions is a package variable that no *)
(* lock guards: the assignment of the struct stores its fields one by one,  *)
(* in an order the compiler picks, and ShouldInstrument reads a field each  *)
(* time it names one.                                                       *)

\* The option values the racing calls work with.
RaceOptions ==
    {DefaultInstrumentationOptions,
     InstrumentationOptions(TRUE, <<>>, <<PatternDirect>>, FALSE),
     InstrumentationOptions(FALSE, <<>>, <<>>, FALSE),
     InstrumentationOptions(TRUE, <<PatternPrefix>>, <<>>, TRUE)}

\* The package paths the racing ShouldInstrument is called with.
RacePackages == {PatternDirect, PatternStdlib}

OptionFields ==
    {"Enabled", "IncludePackages", "ExcludePackages", "InstrumentStdlib"}

RaceFrame ==
    UNCHANGED <<replayerVars, managerVars, recorderVars, securityVars,
                traceVars, debugger, last>>

\* ShouldInstrument returns ret.
ShouldInstrumentReturns(ret) ==
    call' = [call EXCEPT !.pc = "returned", !.ret = ret]

\* ShouldInstrument(packagePath) is entered.  among are the option values
\* that are CurrentOptions at some time of the call: the one at its start,
\* or the old and the new one of an assignment under way.
ShouldInstrumentBegin(packagePath) ==
    /\ call.pc \in {"idle", "returned"}
    /\ call' = [NoCall EXCEPT
           !.pc = "Enabled", !.packagePath = packagePath,
           !.among = IF assign.pc = "idle" THEN {CurrentOptions}
                     ELSE {assign.old, assign.options}]
    /\ RaceFrame
    /\ UNCHANGED <<CurrentOptions, assign>>

\* if !CurrentOptions.Enabled { return false }
ReadEnabled ==
    /\ call.pc = "Enabled"
    /\ IF ~CurrentOptions.Enabled THEN ShouldInstrumentReturns(FALSE)
       ELSE call' = [call EXCEPT !.pc = "InstrumentStdlib"]
    /\ RaceFrame
    /\ UNCHANGED <<CurrentOptions, assign>>

\* isStdlib := !strings.Contains(packagePath, ".");
\* if isStdlib && !CurrentOptions.InstrumentStdlib { return false }
ReadInstrumentStdlib ==
    /\ call.pc = "InstrumentStdlib"
    /\ IF ~Contains(call.packagePath, <<".">>) /\ ~CurrentOptions.InstrumentStdlib
       THEN ShouldInstrumentReturns(FALSE)
       ELSE call' = [call EXCEPT !.pc = "ExcludePackages"]
    /\ RaceFrame
    /\ UNCHANGED <<CurrentOptions, assign>>

\* for _, exclude := range CurrentOptions.ExcludePackages { ... return false }
RangeExcludePackages ==
    /\ call.pc = "ExcludePackages"
    /\ IF MatchesFrom(call.packagePath, CurrentOptions.ExcludePackages, 1)
       THEN ShouldInstrumentReturns(FALSE)
       ELSE call' = [call EXCEPT !.pc = "len",
                                 !.excludes = CurrentOptions.ExcludePackages]
    /\ RaceFrame
    /\ UNCHANGED <<CurrentOptions, assign>>

\* if len(CurrentOptions.IncludePackages) == 0 { return true }
LenIncludePackages ==
    /\ call.pc = "len"
    /\ IF Len(CurrentOptions.IncludePackages) = 0
       THEN ShouldInstrumentReturns(TRUE)
       ELSE call' = [call EXCEPT !.pc = "IncludePackages"]
    /\ RaceFrame
    /\ UNCHANGED <<CurrentOptions, assign>>

\* for _, include := range CurrentOptions.IncludePackages { ... return true };
\* return false
RangeIncludePackages ==
    /\ call.pc = "IncludePackages"
    /\ call' = [call EXCEPT
           !.pc = "returned", !.includes = CurrentOptions.IncludePackages,
           !.ret = MatchesFrom(call.packagePath, CurrentOptions.IncludePackages, 1)]
    /\ RaceFrame
    /\ UNCHANGED <<CurrentOptions, assign>>

\* SetInstrumentationOptions(options) is entered: every field of
\* CurrentOptions is yet to be stored.
SetInstrumentationOptionsBegin(options) ==
    /\ assign.pc = "idle"
    /\ options # CurrentOptions
    /\ assign' = [pc |-> "store", options |-> options, old |-> CurrentOptions,
                  fields |-> OptionFields]
    /\ call' = IF call.pc \in {"idle", "returned"} THEN call
               ELSE [call EXCEPT !.among = @ \cup {options}]
    /\ RaceFrame
    /\ UNCHANGED CurrentOptions

\* CurrentOptions = options: one field is stored.
StoreField(field) ==
    /\ assign.pc = "store" /\ field \in assign.fields
    /\ CurrentOptions' = [CurrentOptions EXCEPT ![field] = assign.options[field]]
    /\ assign' = [assign EXCEPT
           !.fields = @ \ {field},
           !.pc = IF assign.fields = {field} THEN "idle" ELSE "store"]
    /\ RaceFrame
    /\ UNCHANGED call

FilterRaceNext ==
    \/ \E packagePath \in RacePackages : ShouldInstrumentBegin(packagePath)
    \/ ReadEnabled
    \/ ReadInstrumentStdlib
    \/ RangeExcludePackages
    \/ LenIncludePackages
    \/ RangeIncludePackages
    \/ \E options \in RaceOptions : SetInstrumentationOptionsBegin(options)
    \/ \E field \in OptionFields : StoreField(field)

FilterRaceSpec == Init /\ [][FilterRaceNext]_vars

-----------------------------------------------------------------------------
(* Goroutines in the tracing integrator: the main goroutine and a worker    *)
(* call TraceChannelOperation and TraceMutexOperation, the monitor          *)
(* goroutine parses the stacks it captured.  The maps are sync.Maps, whose  *)
(* Load and Store are atomic each; the counters are plain int32 fields, and *)
(* no lock spans a Load, the counter and the Store.                         *)

\* The pointers (%p) of the channels and of the mutex the program traces.
ChannelPointers == {"0xc1", "0xc2"}
MutexPointers == {"0xm1"}

ChannelOps == {"send", "close"}
MutexOps == {"lock", "unlock"}

\* The full name of the integrator's functions, which runtime.Caller names
\* when they call the hooks.
IntegratorCaller == <<"g", ".", "c", "/", "i", ".", "F">>

\* The map and the counter of traceInt for a kind of host identifier.
MapField(kind) ==
    CASE kind = "goroutine" -> "goroutineMap"
      [] kind = "channel" -> "channelMap"
      [] OTHER -> "mutexMap"

NextField(kind) ==
    CASE kind = "goroutine" -> "nextGoroutineID"
      [] kind = "channel" -> "nextChannelID"
      [] OTHER -> "nextMutexID"

\* m.Load(key): ok
Loaded(kind, key) == key \in DOMAIN traceInt[MapField(kind)]

TraceFrame ==
    UNCHANGED <<replayerVars, managerVars, securityVars, filterVars, debugger,
                SnapshotInterval, disk, fr, clock, producers, recorded, got,
                last>>

\* traceInt.recorder.RecordEvent(e) on the in-memory recorder.
TraceRecords(e) == inMemory' = Append(inMemory, StampedEvent(clock, e))

\* A hook of concurrency.go called by the integrator records e, if the
\* filter lets the integrator's package pass.
HookEmits(e) ==
    inMemory' = IF globalRecorder # "nil" /\ shouldInstrumentCaller(IntegratorCaller)
                THEN Append(inMemory, StampedEvent(clock, e))
                ELSE inMemory

\* InitRuntimeTracing(rec) with a new in-memory recorder, by the main
\* goroutine: the main goroutine is stored with id 1, the three counters
\* start at 1, and the recorder is handed to InitInstrumentation.
InitRuntimeTracing ==
    /\ traceInt = NilTraceIntegration
    /\ globalRecorder = "nil"
    /\ traceInt' = [recorder |-> "memory",
                    goroutineMap |-> MapStore(EmptyMap, MainGID, 1),
                    channelMap |-> EmptyMap, mutexMap |-> EmptyMap,
                    nextGoroutineID |-> 1, nextChannelID |-> 1,
                    nextMutexID |-> 1]
    /\ globalRecorder' = "memory"
    /\ TraceFrame
    /\ UNCHANGED <<inMemory, tracers>>

\* The goroutine t enters fn(host, op), finds traceInt set and loads host
\* from the map of its kind.
TraceOperation(t, fn, kind, host, op) ==
    /\ t # MonitorGID
    /\ traceInt # NilTraceIntegration
    /\ tracers[t].pc = "idle" /\ tracers[t].left > 0
    /\ tracers' = [tracers EXCEPT ![t] =
           [IdleTracer EXCEPT
               !.fn = fn, !.op = op, !.host = host, !.kind = kind,
               !.key = host, !.left = tracers[t].left - 1,
               !.hostID = IF Loaded(kind, host)
                          THEN traceInt[MapField(kind)][host] ELSE 0,
               !.pc = IF Loaded(kind, host) THEN "getGoroutineIDOrAssign"
                      ELSE "assign"]]
    /\ TraceFrame
    /\ UNCHANGED <<traceInt, globalRecorder, inMemory>>

\* TraceChannelOperation(ch, op, value) up to channelMap.Load(chPtr)
TraceChannelOperation(t, ch, op) ==
    TraceOperation(t, "TraceChannelOperation", "channel", ch, op)

\* TraceMutexOperation(mu, op) up to mutexMap.Load(muPtr)
TraceMutexOperation(t, mu, op) ==
    TraceOperation(t, "TraceMutexOperation", "mutex", mu, op)

\* parseGoroutineStack(stack) of the monitor goroutine, for the stack of
\* goroutine runtimeGID, up to goroutineMap.Load(runtimeGID)
parseGoroutineStack(runtimeGID) ==
    LET t == MonitorGID
    IN  /\ traceInt # NilTraceIntegration
        /\ tracers[t].pc = "idle" /\ tracers[t].left > 0
        /\ tracers' = [tracers EXCEPT ![t] =
               [IdleTracer EXCEPT
                   !.fn = "parseGoroutineStack", !.kind = "goroutine",
                   !.key = runtimeGID, !.left = tracers[t].left - 1,
                   !.id = IF Loaded("goroutine", runtimeGID)
                          THEN traceInt.goroutineMap[runtimeGID] ELSE 0,
                   !.pc = IF Loaded("goroutine", runtimeGID) THEN "state"
                          ELSE "assign"]]
        /\ TraceFrame
        /\ UNCHANGED <<traceInt, globalRecorder, inMemory>>

\* chID = traceInt.nextChannelID (muID, ourGID alike)
AssignNextID(t) ==
    /\ tracers[t].pc = "assign"
    /\ tracers' = [tracers EXCEPT
           ![t].id = traceInt[NextField(tracers[t].kind)], ![t].pc = "load"]
    /\ TraceFrame
    /\ UNCHANGED <<traceInt, globalRecorder, inMemory>>

\* traceInt.nextChannelID++ : the counter is read.
LoadNextID(t) ==
    /\ tracers[t].pc = "load"
    /\ tracers' = [tracers EXCEPT
           ![t].tmp = traceInt[NextField(tracers[t].kind)], ![t].pc = "store"]
    /\ TraceFrame
    /\ UNCHANGED <<traceInt, globalRecorder, inMemory>>

\* traceInt.nextChannelID++ : what was read, plus one, is stored.
StoreNextID(t) ==
    /\ tracers[t].pc = "store"
    /\ traceInt' = [traceInt EXCEPT
           ![NextField(tracers[t].kind)] = tracers[t].tmp + 1]
    /\ tracers' = [tracers EXCEPT ![t].pc = "Store"]
    /\ TraceFrame
    /\ UNCHANGED <<globalRecorder, inMemory>>

\* traceInt.channelMap.Store(chPtr, chID) (mutexMap, goroutineMap alike);
\* a mutex has no creation event.
StoreID(t) ==
    /\ tracers[t].pc = "Store"
    /\ traceInt' = [traceInt EXCEPT
           ![MapField(tracers[t].kind)] =
               MapStore(@, tracers[t].key, tracers[t].id)]
    /\ tracers' = [tracers EXCEPT ![t] =
           IF tracers[t].kind = "mutex"
           THEN [@ EXCEPT !.hostID = tracers[t].id,
                          !.pc = "getGoroutineIDOrAssign"]
           ELSE [@ EXCEPT !.pc = "created"]]
    /\ TraceFrame
    /\ UNCHANGED <<globalRecorder, inMemory>>

\* The creation event: "Channel %d created" goes to traceInt.recorder,
\* a goroutine's through GoroutineCreate(int(ourGID)).
RecordCreation(t) ==
    /\ tracers[t].pc = "created"
    /\ IF tracers[t].kind = "channel"
       THEN /\ TraceRecords(Event(ChannelOperation,
                  <<"Channel", Itoa(tracers[t].id), "created">>, "", 0, ""))
            /\ tracers' = [tracers EXCEPT ![t].hostID = tracers[t].id,
                                          ![t].pc = "getGoroutineIDOrAssign"]
       ELSE /\ HookEmits(GoroutineCreateEvent(tracers[t].id))
            /\ tracers' = [tracers EXCEPT ![t].pc =
                   IF tracers[t].fn = "parseGoroutineStack" THEN "state"
                   ELSE "emit"]
    /\ TraceFrame
    /\ UNCHANGED <<traceInt, globalRecorder>>

\* getGoroutineIDOrAssign() up to goroutineMap.Load(runtimeGID), where
\* runtimeGID is the caller's own.
getGoroutineIDOrAssign(t) ==
    /\ tracers[t].pc = "getGoroutineIDOrAssign"
    /\ tracers' = [tracers EXCEPT ![t] =
           [@ EXCEPT !.kind = "goroutine", !.key = t,
                     !.id = IF Loaded("goroutine", t)
                            THEN traceInt.goroutineMap[t] ELSE 0,
                     !.pc = IF Loaded("goroutine", t) THEN "emit"
                            ELSE "assign"]]
    /\ TraceFrame
    /\ UNCHANGED <<traceInt, globalRecorder, inMemory>>

\* The event of the operation, by the hook the switch on op calls.
OperationEvent(tr) ==
    CASE tr.op = "send" -> ChannelSendEvent(tr.hostID, tr.id, <<"a">>)
      [] tr.op = "close" -> ChannelCloseEvent(tr.hostID, tr.id)
      [] tr.op = "lock" ->
            Event(SyncOperation,
                  <<"Mutex", Itoa(tr.hostID), ":", "locked", "by", "goroutine",
                    Itoa(tr.id)>>, "", 0, "")
      [] OTHER ->
            Event(SyncOperation,
                  <<"Mutex", Itoa(tr.hostID), ":", "unlocked", "by",
                    "goroutine", Itoa(tr.id)>>, "", 0, "")

\* ChannelSend(int(chID), gID, value) and the other hooks of the switch,
\* after which the call returns.
EmitOperation(t) ==
    /\ tracers[t].pc = "emit"
    /\ HookEmits(OperationEvent(tracers[t]))
    /\ tracers' = [tracers EXCEPT ![t].pc = "idle"]
    /\ TraceFrame
    /\ UNCHANGED <<traceInt, globalRecorder>>

\* parseGoroutineStack: the state event of a running goroutine, after which
\* the call returns.
RecordState(t) ==
    /\ tracers[t].pc = "state"
    /\ TraceRecords(Event(GoroutineSwitch,
           <<"Goroutine", Itoa(tracers[t].id), "state", ":", "running">>,
           "", 0, ""))
    /\ tracers' = [tracers EXCEPT ![t].pc = "idle"]
    /\ TraceFrame
    /\ UNCHANGED <<traceInt, globalRecorder>>

TraceNext ==
    \/ InitRuntimeTracing
    \/ \E t \in Tracers, ch \in ChannelPointers, op \in ChannelOps :
          TraceChannelOperation(t, ch, op)
    \/ \E t \in Tracers, mu \in MutexPointers, op \in MutexOps :
          TraceMutexOperation(t, mu, op)
    \/ \E runtimeGID \in Tracers : parseGoroutineStack(runtimeGID)
    \/ \E t \in Tracers :
          \/ AssignNextID(t)
          \/ LoadNextID(t)
          \/ StoreNextID(t)
          \/ StoreID(t)
          \/ RecordCreation(t)
          \/ getGoroutineIDOrAssign(t)
          \/ EmitOperation(t)
          \/ RecordState(t)

TraceSpec == Init /\ [][TraceNext]_vars

-----------------------------------------------------------------------------
(* Definitions the properties are stated with *)

Min(S) == CHOOSE x \in S : \A y \in S : x <= y

\* Every breakpointCheck argument of the model, nil included.
AllChecks == Checks \cup {NilCheck}

\* A call of ReplayUntilBreakpoint(check); ReplayForward when check is nil.
ReplayCall(check) ==
    IF check.isNil THEN ReplayForward ELSE ReplayUntilBreakpoint(check)

\* The indices from c+1 on at which check is true.
MatchesAfter(evs, c, check) ==
    {i \in (c + 1)..(Len(evs) - 1) :
        ~check.isNil /\ breakpointCheck(check, EventAt(evs, i))}

\* Where a replay from cursor c is to stop: the first match after c, or the
\* last index; -1 on an empty list.
ExpectedStop(evs, c, check) ==
    IF Len(evs) = 0 THEN -1
    ELSE IF MatchesAfter(evs, c, check) # {} THEN Min(MatchesAfter(evs, c, check))
    ELSE Len(evs) - 1

\* Whether the last call was a replay (ReplayForward or ReplayUntilBreakpoint).
LastWasReplay == last.op \in {"ReplayForward", "ReplayUntilBreakpoint"}

\* The concurrency state of a replayer.
ConcurrencyState(r) ==
    [goroutines |-> r.goroutines, channels |-> r.channels,
     activeGoroutine |-> r.activeGoroutine]

\* The replayer that has processed events i..t of its list, in order.
RECURSIVE ProcessRange(_, _, _)
ProcessRange(r, i, t) ==
    IF i > t THEN r
    ELSE ProcessRange(processGoroutineAndChannelEvents(r, EventAt(r.events, i)),
                      i + 1, t)

\* The concurrency state obtained by reinitializing and forward-processing
\* the events up to index t.
StateAt(evs, t) ==
    ConcurrencyState(ProcessRange(LoadEventsResult(NewBasicReplayer, evs).r, 0, t))

-----------------------------------------------------------------------------
(* Properties *)

\* C1: for any cursor position c, ReplayUntilBreakpoint(pred) leaves
\* current_index at the smallest i >= c+1 with pred(events[i]), or at
\* len(events)-1 when there is none (always so for ReplayForward); on an empty
\* list it leaves current_index at -1.
C1_ReplayStopsAtFirstMatch ==
    [][\A check \in AllChecks :
          ReplayCall(check) =>
              currentIdx' = ExpectedStop(events, currentIdx, check)]_vars

\* C1, for the cursors that lie within the log (-1 <= c <= len(events)-1):
\* there the replay stops as C1 says.
C1_WithinLog ==
    [][\A check \in AllChecks :
          (ReplayCall(check) /\ currentIdx <= Len(events) - 1) =>
              currentIdx' = ExpectedStop(events, currentIdx, check)]_vars

\* C2: StepBackward(i) returns an error for every i <= 0; for every i > 0 it
\* returns i-1 and no error and leaves current_index = i-1.  A run of calls
\* StepBackward(current_index()) that began at index k has, while it succeeds,
\* moved the cursor down by one per call, and fails after exactly k successes
\* (at once when it began before the first event).
C2_StepBackward ==
    last.op = "StepBackward" =>
        /\ last.arg <= 0 => last.err
        /\ last.arg > 0 =>
               ~last.err /\ last.ret = last.arg - 1 /\ currentIdx = last.arg - 1
        /\ (last.run /\ ~last.err) =>
               last.n <= last.k /\ currentIdx = last.k - last.n
        /\ (last.run /\ last.err) =>
               last.n = (IF last.k > 0 THEN last.k ELSE 0)

\* A run of StepBackward(current_index()) from index 1 of a two-event log has
\* succeeded once and then failed.
C2_Witness ==
    /\ last.op = "StepBackward" /\ last.run /\ last.err
    /\ last.k = 1 /\ last.n = 1
    /\ Len(events) = 2 /\ currentIdx = 0

\* C3: for every index i with 0 <= i < len(events), from any prior cursor
\* position, after ReplayToEventIndex(i) current_index() is i.
C3_ReplayToIndexSetsCursor ==
    (last.op = "ReplayToEventIndex" /\ 0 <= last.arg /\ last.arg < Len(events)) =>
        currentIdx = last.arg

\* ReplayToEventIndex(0) was called with the cursor at the end of a two-event
\* log and moved it to 0.
C3_Witness ==
    /\ last.op = "ReplayToEventIndex" /\ last.arg = 0
    /\ Len(events) = 2 /\ last.from = 1 /\ currentIdx = 0

\* C4 as claimed: ReplayToEventIndex(k) with k outside [0, len(events)) moves
\* the cursor to the clamped index (0 for k < 0, len-1 for k >= len) when the
\* list is not empty, and is a no-op on an empty list.
C4_OutOfRangeClamps ==
    (last.op = "ReplayToEventIndex" /\ (last.arg < 0 \/ last.arg >= Len(events))) =>
        currentIdx = (IF Len(events) = 0 THEN last.from
                      ELSE IF last.arg < 0 THEN 0 ELSE Len(events) - 1)

\* C4 as amended: ReplayToEventIndex(k) with k outside [0, len(events)) is a
\* no-op on every list, empty or not: it returns no error and leaves the
\* cursor and the rest of the replayer as they were.  (A step whose record
\* last' names ReplayToEventIndex is a call of it with argument last'.arg.)
C4_OutOfRangeIsNoOp ==
    [][(/\ last'.op = "ReplayToEventIndex"
        /\ last'.arg < 0 \/ last'.arg >= Len(events)) =>
           (UNCHANGED replayerVars /\ ~last'.err)]_vars

\* ReplayToEventIndex was called with an index past the end of a two-event log
\* while the cursor was at 0, and the cursor is still at 0.
C4_Witness ==
    /\ last.op = "ReplayToEventIndex" /\ last.arg >= Len(events)
    /\ Len(events) = 2 /\ last.from = 0 /\ currentIdx = 0

\* C5: after a move of the cursor backward to a target index t (StepBackward
\* or ReplayToEventIndex), the goroutine, channel and active-goroutine state
\* equals the state obtained by reinitializing and forward-processing the
\* events up to t.  Stated of the moves that start at an index of the log.
C5_BackwardMoveRebuildsState ==
    (/\ last.op \in {"StepBackward", "ReplayToEventIndex"}
     /\ ~last.err
     /\ currentIdx < last.from /\ last.from < Len(events)
     /\ 0 <= currentIdx /\ currentIdx < Len(events)) =>
        ConcurrencyState(Replayer) = StateAt(events, currentIdx)

\* C6: a ReplayUntilBreakpoint call from At(i) never ends at an index below i;
\* it ends at an index j > i or at the last index, so it leaves the cursor at i
\* only when i is the last index (whence repeated calls reach the end of the
\* log after at most len(events) of them).
C6_ReplayAdvances ==
    [][\A check \in AllChecks :
          (ReplayCall(check) /\ currentIdx >= 0) =>
              /\ currentIdx' >= currentIdx
              /\ currentIdx' > currentIdx \/ currentIdx' = Len(events) - 1]_vars

\* C6, for the cursors At(i) with i an index of the log.
C6_WithinLog ==
    [][\A check \in AllChecks :
          (ReplayCall(check) /\ currentIdx >= 0 /\ currentIdx < Len(events)) =>
              /\ currentIdx' >= currentIdx
              /\ currentIdx' > currentIdx \/ currentIdx' = Len(events) - 1]_vars

\* C7: LoadEvents, in any replayer state, replaces the event list and resets
\* current_index to -1, goroutines to exactly {1: running}, channels to empty
\* and active_goroutine to 1.
C7_LoadResets ==
    last.op = "LoadEvents" =>
        /\ events = last.loaded
        /\ currentIdx = -1
        /\ goroutines = MapPut(EmptyMap, 1, GoroutineState(1, TRUE))
        /\ channels = EmptyMap
        /\ activeGoroutine = 1

\* LoadEvents was called on a replayer whose cursor stood at index 1 or
\* beyond, that is, over a session that had been replayed.
C7_Witness ==
    last.op = "LoadEvents" /\ last.from >= 1 /\ Len(events) = 1

\* C8: LoadEvents, ReplayForward, ReplayUntilBreakpoint and ReplayToEventIndex
\* never return an error; the only error of the API is that of StepBackward
\* with an index <= 0.
C8_OnlyStepBackwardFails ==
    /\ last.op \in {"LoadEvents", "ReplayForward", "ReplayUntilBreakpoint",
                    "ReplayToEventIndex"} => ~last.err
    /\ last.err => (last.op = "StepBackward" /\ last.arg <= 0)

\* ReplayForward has run from the start to the end of a log that holds an
\* event with unparsable Details, and returned no error.
C8_Witness ==
    /\ last.op = "ReplayForward" /\ ~last.err
    /\ last.from = -1 /\ Len(events) = 2 /\ currentIdx = 1
    /\ \E i \in 0..1 : EventAt(events, i) \in MalformedEvents

\* C9: after the replayer has processed an event "Channel C: closed by
\* goroutine G", channels[C] exists and is closed, whether or not a send or a
\* receive on C was processed before.
C9_CloseMarksChannelClosed ==
    LastWasReplay =>
        \A i \in (last.from + 1)..currentIdx :
            \A c \in ChannelIds, g \in GoroutineIds :
                EventAt(events, i) = ChannelCloseEvent(c, g) =>
                    (c \in DOMAIN channels /\ channels[c].Closed)

\* C10: what processing one event does to the concurrency state.  A switch
\* from A to B sets goroutines[A].running to false when A is known (and is not
\* B), makes goroutines[B] exist with running true and makes B the active
\* goroutine; "Goroutine N created" makes goroutines[N] exist with running
\* true; a send or a receive on C makes channels[C] exist and leaves its closed
\* flag as it was.  Stated of the replays that process exactly one event, the
\* one after the cursor.
C10_EventEffects ==
    [][\A check \in AllChecks :
          (/\ ReplayCall(check)
           /\ currentIdx + 1 < Len(events)
           /\ currentIdx' = currentIdx + 1) =>
              LET e == EventAt(events, currentIdx + 1) IN
              /\ \A a \in GoroutineIds, b \in GoroutineIds :
                    e = GoroutineSwitchEvent(a, b) =>
                        /\ (a \in DOMAIN goroutines /\ a # b) =>
                               ~goroutines'[a].Running
                        /\ b \in DOMAIN goroutines' /\ goroutines'[b].Running
                        /\ activeGoroutine' = b
              /\ \A n \in GoroutineIds :
                    e = GoroutineCreateEvent(n) =>
                        (n \in DOMAIN goroutines' /\ goroutines'[n].Running)
              /\ \A c \in ChannelIds, g \in GoroutineIds, v \in Values :
                    (e = ChannelSendEvent(c, g, v) \/ e = ChannelRecvEvent(c, g, v)) =>
                        /\ c \in DOMAIN channels'
                        /\ c \in DOMAIN channels =>
                               channels'[c].Closed = channels[c].Closed]_vars

\* The enabled breakpoints of a list, in order.
EnabledOnly(bps) == SelectSeq(bps, LAMBDA b : b.Enabled)

\* Whether a position after the last colon of s exists and holds only digits.
LineIsDecimal(s) ==
    LET colon == LastIndex(s, ":") + 1
    IN  colon < Len(s) /\ \A i \in (colon + 1)..Len(s) : IsNumeral(s[i])

\* A statement event whose text holds an assignment that mentions expr.
AssignmentMentions(e, expr) ==
    /\ e.Type = StatementExecution
    /\ Contains(e.Details, <<"=">>)
    /\ Contains(e.Details, expr)

\* Whether bp is a watchpoint, of any mode.
IsWatchpoint(bp) ==
    bp.Type \in {WatchpointRead, WatchpointWrite, WatchpointReadWrite}

\* C11: a disabled breakpoint never matches.  For every event, CheckBreakpoint
\* and the predicate of continue answer on the manager's list what they answer
\* on its enabled breakpoints alone, and answer true only if one enabled
\* breakpoint, taken alone, matches; and a continue that stopped at a
\* breakpoint stopped at an event that the enabled breakpoints match.
C11_DisabledNeverMatches ==
    /\ \A e \in DebuggerVocabulary :
          LET details == e.Details
              eventType == EventTypeString(e.Type)
          IN  /\ CheckBreakpoint(breakpoints, details, eventType)
                    = CheckBreakpoint(EnabledOnly(breakpoints), details, eventType)
              /\ breakpointChecker(breakpoints, e)
                    = breakpointChecker(EnabledOnly(breakpoints), e)
              /\ CheckBreakpoint(breakpoints, details, eventType) =>
                    \E i \in 1..Len(breakpoints) :
                        /\ breakpoints[i].Enabled
                        /\ CheckBreakpoint(<<breakpoints[i]>>, details, eventType)
              /\ breakpointChecker(breakpoints, e) =>
                    \E i \in 1..Len(breakpoints) :
                        /\ breakpoints[i].Enabled
                        /\ breakpointChecker(<<breakpoints[i]>>, e)
    /\ (last.op = "Continue" /\ last.hit) =>
          breakpointChecker(EnabledOnly(breakpoints), EventAt(events, currentIdx))

\* A continue has run past an event that a disabled breakpoint of the manager
\* would match if it were enabled.
C11_Witness ==
    /\ last.op = "Continue"
    /\ \E i \in 1..Len(breakpoints) :
          /\ ~breakpoints[i].Enabled
          /\ \E j \in (last.from + 1)..(currentIdx - 1) :
                breakpointChecker(<<[breakpoints[i] EXCEPT !.Enabled = TRUE]>>,
                                  EventAt(events, j))

\* C12 as claimed: AddBreakpoint(s) classifies every string s.  With the
\* prefix func: it gives a Function breakpoint named by the remainder;
\* otherwise, if s holds a colon, a Location breakpoint whose file is the text
\* before the last colon and whose line is the integer after it; otherwise an
\* EventType breakpoint with tag s.  Every breakpoint returned is enabled.
C12_EveryStringClassified ==
    last.op = "AddBreakpoint" =>
        LET s == last.spec
            b == last.bp
            colon == LastIndex(s, ":") + 1
        IN  /\ ~last.err /\ b.Enabled
            /\ IF HasPrefix(s, <<"func", ":">>)
               THEN /\ b.Type = FunctionBreakpoint
                    /\ b.Function = SubSeq(s, 3, Len(s))
               ELSE IF colon > 0
               THEN /\ b.Type = LocationBreakpoint
                    /\ b.File = SubSeq(s, 1, colon - 1)
                    /\ LineIsDecimal(s)
                    /\ b.Line = DecimalValue(SubSeq(s, colon + 1, Len(s)))
               ELSE b.Type = EventTypeBreakpoint /\ b.EventType = s

\* C12 as amended: as claimed for the prefix func: and for a string without
\* a colon.  For a string that holds a colon, AddBreakpoint gives the Location
\* breakpoint (file before the last colon, line the integer after it) when the
\* text after the last colon is a decimal integer, and otherwise returns an
\* error and no breakpoint and adds none to the list.  Every breakpoint
\* returned is enabled and is appended to the list; C:/x/y.go:10 gives file
\* C:/x/y.go and line 10.
C12_Classification ==
    [][last'.op = "AddBreakpoint" =>
          LET s == last'.spec
              b == last'.bp
              colon == LastIndex(s, ":") + 1
              returned == /\ ~last'.err /\ b.Enabled
                          /\ breakpoints' = Append(breakpoints, b)
          IN  /\ IF HasPrefix(s, <<"func", ":">>)
                 THEN /\ returned
                      /\ b.Type = FunctionBreakpoint
                      /\ b.Function = SubSeq(s, 3, Len(s))
                 ELSE IF colon > 0 /\ LineIsDecimal(s)
                 THEN /\ returned
                      /\ b.Type = LocationBreakpoint
                      /\ b.File = SubSeq(s, 1, colon - 1)
                      /\ b.Line = DecimalValue(SubSeq(s, colon + 1, Len(s)))
                 ELSE IF colon > 0
                 THEN /\ last'.err /\ b = NilBreakpoint
                      /\ breakpoints' = breakpoints
                 ELSE /\ returned
                      /\ b.Type = EventTypeBreakpoint /\ b.EventType = s
              /\ s = <<"C", ":", "/", "x", "/", "y.go", ":", "1", "0">> =>
                    (b.File = <<"C", ":", "/", "x", "/", "y.go">> /\ b.Line = 10)]_vars

\* AddBreakpoint("C:/x/y.go:10") has returned a Location breakpoint.
C12_Witness ==
    /\ last.op = "AddBreakpoint"
    /\ last.spec = <<"C", ":", "/", "x", "/", "y.go", ":", "1", "0">>
    /\ last.bp.Type = LocationBreakpoint /\ last.bp.Line = 10
    /\ Len(breakpoints) > 0 /\ breakpoints[Len(breakpoints)] = last.bp

\* C13: an enabled Function breakpoint named NAME matches an event if and only
\* if the event's kind is FuncEntry and its func_name or its details contains
\* NAME, with every matcher of the manager: CheckBreakpoint and the predicate
\* of continue.
C13_FunctionMatchesEntryOnly ==
    \A i \in 1..Len(breakpoints) :
        LET b == breakpoints[i] IN
        (b.Enabled /\ b.Type = FunctionBreakpoint) =>
            \A e \in DebuggerVocabulary :
                LET expected ==
                        /\ e.Type = FuncEntry
                        /\ \/ Contains(FieldTokens(e.FuncName), b.Function)
                           \/ Contains(e.Details, b.Function)
                IN  /\ breakpointChecker(<<b>>, e) = expected
                    /\ CheckBreakpoint(<<b>>, e.Details, EventTypeString(e.Type))
                           = expected

\* C13, of the predicate of continue alone.
C13_ContinuePredicate ==
    \A i \in 1..Len(breakpoints) :
        LET b == breakpoints[i] IN
        (b.Enabled /\ b.Type = FunctionBreakpoint) =>
            \A e \in DebuggerVocabulary :
                breakpointChecker(<<b>>, e) =
                    (/\ e.Type = FuncEntry
                     /\ \/ Contains(FieldTokens(e.FuncName), b.Function)
                        \/ Contains(e.Details, b.Function))

\* C14: with an enabled watchpoint on x in the manager, continue halts at the
\* first later StatementExecution event whose details hold an assignment that
\* mentions x, if not before; it does not run past it.
C14_WatchpointHaltsContinue ==
    last.op = "Continue" =>
        \A i \in 1..Len(breakpoints) :
            LET b == breakpoints[i]
                hits == {j \in (last.from + 1)..(Len(events) - 1) :
                            AssignmentMentions(EventAt(events, j), b.Expression)}
            IN  (b.Enabled /\ IsWatchpoint(b) /\ hits # {}) =>
                    currentIdx <= Min(hits)

Quiescent ==
    /\ globalRecorder # "nil"
    /\ \A p \in Producers : producers[p].pc = "idle" /\ producers[p].left = 0

\* What events() of the shared recorder returns in this state.
SharedLog ==
    IF globalRecorder = "memory" THEN inMemory
    ELSE GetEventsResult(FileRecorder).events

\* A log without its SnapshotMarker events.
WithoutMarkers(log) == SelectSeq(log, LAMBDA e : e.Type # SnapshotEvent)

\* How often e occurs in log.
Occurrences(log, e) == Cardinality({i \in 1..Len(log) : log[i] = e})

\* The log of a recorder with interval n on which evs were recorded: after
\* every n-th of them the marker of its snapshot.
RECURSIVE ExpectedLog(_, _)
ExpectedLog(evs, n) ==
    IF Len(evs) = 0 THEN <<>>
    ELSE LET e == evs[Len(evs)]
         IN  ExpectedLog(SubSeq(evs, 1, Len(evs) - 1), n) \o <<e>>
                \o (IF n > 0 /\ Len(evs) % n = 0
                    THEN <<SnapshotMarker(CreateSnapshot(e.ID))>> ELSE <<>>)

\* Whether the line of every event of evs is shorter than MaxScanTokenSize.
ShortLines(evs) ==
    \A i \in 1..Len(evs) : TextSize(Marshal(evs[i])) < MaxScanTokenSize

\* Whether log a is the beginning of log b.
IsPrefix(a, b) == Len(a) <= Len(b) /\ SubSeq(b, 1, Len(a)) = a

\* What a new recorder on the closed file, with the same options, reads back.
ReopenAndRead ==
    GetEventsResult(
        NewFileRecorderWithOptionsResult(disk, fr.compressionType)).events

\* C16: when the producers' concurrent RecordEvent calls on the shared
\* recorder have all returned, events() holds every recorded event exactly
\* once and nothing else (markers aside).
C16_ConcurrentRecordsSerialized ==
    Quiescent =>
        LET log == WithoutMarkers(SharedLog)
        IN  /\ Len(log) = Len(recorded)
            /\ \A i \in 1..Len(recorded) :
                  Occurrences(log, recorded[i]) = 1

\* C17: the ids of the events in the shared recorder's log never decrease in
\* log order: in the in-memory recorder's list at any time, and in the file
\* recorder's log once the producers' calls have returned.
C17_IdsNondecreasing ==
    (globalRecorder = "memory" \/ Quiescent) =>
        LET log == WithoutMarkers(SharedLog)
        IN  \A p, q \in 1..Len(log) : p < q => log[p].ID <= log[q].ID

\* C18: with concurrent producers on a file recorder with interval N, the
\* log holds the marker of a snapshot right after every (k*N)-th event and
\* nowhere else; with N = 0 it holds none.
C18_MarkerFollowsTrigger ==
    (Quiescent /\ globalRecorder = "file") =>
        LET log == SharedLog
        IN  log = ExpectedLog(WithoutMarkers(log), SnapshotInterval)

\* C18 for one client, whose calls do not overlap, on events with lines shorter
\* than MaxScanTokenSize: the log of a recorder that has recorded evs since
\* its creation or its last Clear is evs with a marker after every N-th.
C18_OneClient ==
    (/\ fr.file = "open" /\ globalRecorder = "nil"
     /\ fr.eventCount = Len(recorded)
     /\ ShortLines(recorded)) =>
        GetEventsResult(FileRecorder).events
            = ExpectedLog(recorded, SnapshotInterval)

\* C19: after the recorder is closed, a recorder opened on the same path with
\* the same options reads back, markers removed, exactly the events recorded,
\* in the order recorded.
C19_RoundTrip ==
    fr.file = "closed" => WithoutMarkers(ReopenAndRead) = recorded

\* C19 for events whose lines are shorter than MaxScanTokenSize.
C19_ShortLines ==
    (fr.file = "closed" /\ ShortLines(recorded)) =>
        WithoutMarkers(ReopenAndRead) = recorded

\* C20: every GetEvents returns, markers removed, exactly the events recorded
\* since the last Clear, in order; what an earlier GetEvents returned is the
\* beginning of what a later one returns; and a GetEvents right after a
\* GetEvents returns the same.
C20_ReadsKeepTheLog ==
    [][last'.op = "GetEvents" =>
          /\ WithoutMarkers(got') = recorded'
          /\ IsPrefix(got, got')
          /\ last.op = "GetEvents" => got' = got]_vars

\* C20 for events whose lines are shorter than MaxScanTokenSize.
C20_ShortLines ==
    [][(last'.op = "GetEvents" /\ ShortLines(recorded')) =>
          /\ WithoutMarkers(got') = recorded'
          /\ IsPrefix(got, got')
          /\ last.op = "GetEvents" => got' = got]_vars

\* C21: a RecordEvent during which a write to the file fails, that of the
\* SnapshotMarker included, returns the error.
C21_WriteFailureReturned ==
    [][(last'.op = "RecordEvent" /\ fr.file = "open" /\ fr'.file = "failed") =>
          last'.err]_vars

\* C21 for the write of the event's own line: its failure is returned and
\* the event is not counted.
C21_EventWriteFailureReturned ==
    [][(/\ last'.op = "RecordEvent" /\ fr.file = "open" /\ fr'.file = "failed"
        /\ fr'.eventCount = fr.eventCount) =>
          last'.err /\ recorded' = recorded]_vars

\* Whether a text holds a token that is one of the patterns, in any case.
HoldsPattern(text, patterns) ==
    \E i \in 1..Len(text), j \in 1..Len(patterns) :
        LowerToken(text[i]) = LowerToken(patterns[j])

\* The envelope was made without an error and GetOriginalEvent was called
\* on it, unchanged, with the options it was made with.
RoundTripDone ==
    /\ envelope.made /\ ~envelope.err /\ envelope.unwrapped
    /\ envelope.tampered = 0 /\ envelope.readOpts = envelope.opts

UnwrappedWithHMAC ==
    /\ envelope.unwrapped /\ envelope.readOpts.EnableIntegrityCheck
    /\ Len(envelope.se.HMAC) > 0

\* C25: GetOriginalEvent verifies the hmac, when there is one and integrity
\* is enabled, before it does anything else: the details are not decoded
\* from base64 and not decrypted before that, and an envelope whose hmac
\* does not verify is rejected by that verification, marked encrypted or not.
C25_HMACVerifiedFirst ==
    UnwrappedWithHMAC =>
        /\ envelope.result.did[1] = "hmac"
        /\ ~VerifyHMAC(Marshal(envelope.se.Event),
                       envelope.readOpts.IntegrityKey, envelope.se.HMAC)
              => envelope.result.did = <<"hmac">>

\* C25 for what does hold: the hmac is verified before DecryptData is
\* called, and an envelope whose hmac does not verify is rejected.
C25_HMACBeforeDecrypt ==
    UnwrappedWithHMAC =>
        /\ \A i \in 1..Len(envelope.result.did) :
              envelope.result.did[i] = "decrypt" =>
                  \E j \in 1..(i - 1) : envelope.result.did[j] = "hmac"
        /\ ~VerifyHMAC(Marshal(envelope.se.Event),
                       envelope.readOpts.IntegrityKey, envelope.se.HMAC)
              => envelope.result.err

\* The secure recorder is closed and line i of its file is not as written.
Modified(i) ==
    /\ sfr.file = "closed"
    /\ i <= Len(written.lines) /\ StoredLines[i] # written.lines[i]

\* C23: with integrity enabled, after any change of a stored envelope (an
\* event field, the hmac changed or removed, a flag, a corrupted line)
\* DetectTampering returns true or events() drops the envelope: none is
\* both undetected and returned.
C23_ModifiedDetectedOrDropped ==
    \A i \in 1..Len(StoredLines) :
        (Modified(i) /\ sfr.securityOpts.EnableIntegrityCheck) =>
            \/ DetectTamperingResult(SecureFileRecorder)
            \/ Skips(StoredLines[i], sfr.securityOpts)

\* C23 for the envelopes that keep their hmac and their flags: a changed
\* event field, a changed hmac and a corrupted line are detected.
C23_WithHMACDetected ==
    \A i \in 1..Len(StoredLines) :
        (/\ Modified(i) /\ sfr.securityOpts.EnableIntegrityCheck
         /\ ~UnmarshalSecure(StoredLines[i]).err =>
                LET se == UnmarshalSecure(StoredLines[i]).se
                    was == UnmarshalSecure(written.lines[i]).se
                IN  /\ Len(se.HMAC) > 0
                    /\ se.Encrypted = was.Encrypted
                    /\ se.IsRedacted = was.IsRedacted) =>
            DetectTamperingResult(SecureFileRecorder)

\* C24: every line that events() skips on a secure file recorder is a line
\* for which DetectTampering on the same file and options returns true.
C24_SkippedIsDetected ==
    \A i \in 1..Len(StoredLines) :
        (sfr.file = "closed" /\ Skips(StoredLines[i], sfr.securityOpts)) =>
            DetectTamperingResult(SecureFileRecorder)

\* C24 for the lines skipped because they do not parse or because their
\* hmac does not verify, with integrity enabled.
C24_FailedHMACIsDetected ==
    \A i \in 1..Len(StoredLines) :
        LET parsed == UnmarshalSecure(StoredLines[i])
        IN  (/\ sfr.file = "closed" /\ sfr.securityOpts.EnableIntegrityCheck
             /\ \/ parsed.err
                \/ /\ Len(parsed.se.HMAC) > 0
                   /\ ~VerifyHMAC(Marshal(parsed.se.Event),
                                  sfr.securityOpts.IntegrityKey,
                                  parsed.se.HMAC)) =>
                DetectTamperingResult(SecureFileRecorder)

\* Whether encryption is enabled with a key that AES does not take.
BadKey(opts) ==
    opts.EnableEncryption /\ KeyLen(opts.EncryptionKey) \notin AESKeySizes

\* C26: on a secure file recorder with encryption enabled and a key that is
\* not 16, 24 or 32 bytes long, every RecordEvent returns an error, writes
\* nothing and does not advance the event count.
C26_BadKeyRecordsNothing ==
    [][(last'.op = "SecureRecordEvent" /\ BadKey(sfr.securityOpts)) =>
          /\ last'.err
          /\ disk' = disk /\ sfr' = sfr
          /\ recorded' = recorded /\ written' = written]_vars

\* A RecordEvent with a key of 5 bytes and an interval of 1, at which a
\* counted event brings a marker, has returned an error and the file is
\* empty.
C26_Witness ==
    /\ last.op = "SecureRecordEvent" /\ last.err
    /\ BadKey(sfr.securityOpts) /\ SnapshotInterval = 1
    /\ sfr.file = "open" /\ sfr.eventCount = 0
    /\ disk = <<>> /\ Len(sfr.writer) = 0 /\ Len(sfr.bufWriter) = 0

\* C21 for the secure recorder: a RecordEvent during which a write to the
\* file fails, that of the marker included, returns the error.
C21_SecureWriteFailureReturned ==
    [][(/\ last'.op = "SecureRecordEvent"
        /\ sfr.file = "open" /\ sfr'.file = "failed") => last'.err]_vars

-----------------------------------------------------------------------------
(* The selective filter *)

\* Whether pattern matches packagePath as the filter's contract has it: a
\* pattern that ends in the wildcard suffix matches every path that begins
\* with what stands before the suffix, any other pattern matches as a glob.
PatternMatches(packagePath, pattern) ==
    IF Len(pattern) >= 3 /\ \A i \in (Len(pattern) - 2)..Len(pattern) : pattern[i] = "."
    THEN \E k \in 0..Len(packagePath) :
            SubSeq(packagePath, 1, k) = SubSeq(pattern, 1, Len(pattern) - 3)
    ELSE Match(pattern, packagePath)

\* The contract of the filter for options and packagePath.
ShouldEmit(options, packagePath) ==
    /\ options.Enabled
    /\ options.InstrumentStdlib \/ \E i \in 1..Len(packagePath) : packagePath[i] = "."
    /\ ~\E i \in 1..Len(options.ExcludePackages) :
           PatternMatches(packagePath, options.ExcludePackages[i])
    /\ \/ Len(options.IncludePackages) = 0
       \/ \E i \in 1..Len(options.IncludePackages) :
             PatternMatches(packagePath, options.IncludePackages[i])

\* C27: ShouldInstrument(pkg) returns true if and only if the options are
\* enabled, the standard library is instrumented or pkg contains a dot, no
\* exclude pattern matches pkg, and the include list is empty or one of its
\* patterns matches pkg, where a pattern that ends in the wildcard suffix
\* matches by prefix; an exclude match overrides every include match.
C27_ShouldInstrumentIff ==
    last.op = "ShouldInstrument" =>
        (last.hit <=> ShouldEmit(CurrentOptions, last.arg))

\* ShouldInstrument returned true for a package that a pattern with the
\* wildcard suffix includes, with an exclude list that is not empty.
C27_Witness ==
    /\ last.op = "ShouldInstrument" /\ last.hit
    /\ CurrentOptions.IncludePackages = <<PatternPrefix>>
    /\ CurrentOptions.ExcludePackages = <<PatternDirect>>
    /\ last.arg = <<"g", ".", "c", "/", "p", "q">>

\* ShouldInstrument returned false for a package that an include pattern and
\* an exclude pattern both match.
C27_ExcludeOverrides ==
    (/\ last.op = "ShouldInstrument"
     /\ \E i \in 1..Len(CurrentOptions.ExcludePackages) :
           PatternMatches(last.arg, CurrentOptions.ExcludePackages[i]))
        => ~last.hit

\* The emission functions.
EmissionFunctions ==
    {"FuncEntry", "FuncExit", "RecordStatement"} \cup ConcurrencyHooks

\* C28: every emission function consults the selective filter: when the
\* filter rejects the caller, the call records no event, whatever the
\* function name argument is.
C28_RejectedCallerRecordsNothing ==
    [][(/\ last'.op \in EmissionFunctions
        /\ ~ShouldInstrumentNow(extractPackagePath(last'.arg)))
           => inMemory' = inMemory]_vars

\* The emission functions of concurrency.go record nothing for a caller the
\* filter rejects, and FuncEntry, FuncExit and RecordStatement record nothing
\* for such a caller when the function name holds a dot and does not begin
\* with Test.
C28_QualifiedNameFiltered ==
    [][(/\ last'.op \in EmissionFunctions
        /\ last'.op \in ConcurrencyHooks \/ last'.spec = "p.F"
        /\ ~ShouldInstrumentNow(extractPackagePath(last'.arg)))
           => inMemory' = inMemory]_vars

\* C29: a ShouldInstrument call that runs concurrently with
\* SetInstrumentationOptions decides according to one consistent options
\* value: its result is the result for the complete old options or for the
\* complete new options, never for a mix of fields from both.
C29_ConsistentSnapshot ==
    call.pc = "returned" =>
        \E options \in call.among :
            call.ret = ShouldInstrumentWith(options, call.packagePath)

\* A ShouldInstrument call during which CurrentOptions was one value
\* throughout returns the result for that value.
C29_AloneConsistent ==
    (call.pc = "returned" /\ Cardinality(call.among) = 1) =>
        \A options \in call.among :
            call.ret = ShouldInstrumentWith(options, call.packagePath)

-----------------------------------------------------------------------------
(* The tracing integrator *)

\* No two keys of map m have the same id.
Injective(m) == \A k1, k2 \in DOMAIN m : k1 # k2 => m[k1] # m[k2]

\* How many events of the in-memory recorder are creation events of the
\* given noun ("Channel", "Goroutine").
CreationEvents(noun) ==
    Cardinality({i \in 1..Len(inMemory) :
        /\ Len(inMemory[i].Details) = 3
        /\ inMemory[i].Details[1] = noun
        /\ inMemory[i].Details[3] = "created"})

\* C30: in the runtime tracing integrator each host identifier (channel
\* pointer, mutex pointer, runtime goroutine id) is assigned exactly one
\* internal id on first sight and keeps it, distinct host identifiers never
\* share an internal id (the main goroutine's id 1 included), and exactly one
\* creation event is emitted per new goroutine and channel, under every
\* interleaving of the calls and the monitor.
C30_UniqueIds ==
    (\A t \in Tracers : tracers[t].pc = "idle") =>
        /\ Injective(traceInt.goroutineMap)
        /\ Injective(traceInt.channelMap)
        /\ Injective(traceInt.mutexMap)
        /\ \A t \in Tracers :
              tracers[t].fn \in {"TraceChannelOperation", "TraceMutexOperation"}
                  => /\ tracers[t].hostID =
                            traceInt[MapField(IF tracers[t].fn = "TraceChannelOperation"
                                              THEN "channel" ELSE "mutex")][tracers[t].host]
                     /\ tracers[t].id = traceInt.goroutineMap[t]
        /\ CreationEvents("Channel") = Cardinality(DOMAIN traceInt.channelMap)
        /\ CreationEvents("Goroutine") =
               Cardinality(DOMAIN traceInt.goroutineMap \ {MainGID})

\* With the worker and the monitor out of the way, the main goroutine's
\* calls give distinct channels and mutexes distinct ids, one creation event
\* per channel, and the main goroutine its id 1.
C30_MainAlone ==
    (/\ \A t \in Tracers : tracers[t].pc = "idle"
     /\ \A t \in Tracers \ {MainGID} : tracers[t].left = MaxEmits) =>
        /\ Injective(traceInt.channelMap)
        /\ Injective(traceInt.mutexMap)
        /\ CreationEvents("Channel") = Cardinality(DOMAIN traceInt.channelMap)
        /\ tracers[MainGID].fn # "" => tracers[MainGID].id = 1

-----------------------------------------------------------------------------
(* The bp command *)

\* Whether the words after bp name an operation of the manager that the
\* manager would carry out: a location it accepts, or remove, enable or
\* disable with a number.
WellFormedBp(args) ==
    \/ /\ Len(args) = 2
       /\ args[1] \in {<<c>> : c \in IdCommands}
       /\ ~StrconvAtoi(args[2]).err
    \/ /\ Len(args) = 1
       /\ args[1] \notin {<<c>> : c \in IdCommands \cup {"list"}}
       /\ ~AddBreakpointResult(NewBreakpointManager, args[1]).err

\* The manager after the operation the words after bp name.
ForwardedToManager(bm, args) ==
    IF Len(args) = 1 THEN AddBreakpointResult(bm, args[1]).bm
    ELSE IF args[1] = <<"remove">>
    THEN RemoveBreakpointResult(bm, StrconvAtoi(args[2]).val).bm
    ELSE IF args[1] = <<"enable">>
    THEN EnableBreakpointResult(bm, StrconvAtoi(args[2]).val).bm
    ELSE DisableBreakpointResult(bm, StrconvAtoi(args[2]).val).bm

\* C31: a bp command reaches the breakpoint manager whether or not a live
\* adapter is attached: bp <spec> adds the breakpoint, bp remove|enable|
\* disable <id> update it.
C31_BpForwarded ==
    [][last'.op = "bp" /\ WellFormedBp(last'.spec) =>
           Manager' = ForwardedToManager(Manager, last'.spec)]_vars

\* With an adapter attached, bp remove|enable|disable <id> reach the manager
\* whatever the adapter answers.
C31_AttachedIdCommandsForwarded ==
    [][/\ last'.op = "bp"
       /\ debugger = "delve"
       /\ Len(last'.spec) = 2
       /\ WellFormedBp(last'.spec)
       => Manager' = ForwardedToManager(Manager, last'.spec)]_vars

\* In a replay-only session no bp command changes the manager.
C31_ReplayOnlyIgnored ==
    [][last'.op = "bp" /\ debugger = "nil" => UNCHANGED managerVars]_vars

-----------------------------------------------------------------------------
(* The cursor and the reconstructed state of the replayer *)

\* Whether index c is -1 or an index of evs.
WithinLog(evs, c) == -1 <= c /\ c <= Len(evs) - 1

\* Whether LoadEvents has been called: it puts goroutine 1 in the map, which
\* is empty in a new replayer, and no call takes a goroutine out of the map.
EventsLoaded == 1 \in DOMAIN goroutines

\* C32: after LoadEvents, whatever the calls and their integer arguments,
\* -1 <= current_index <= len(events)-1.
C32_CursorWithinLog == EventsLoaded => WithinLog(events, currentIdx)

\* A cursor that is within the log stays within it on every call but
\* StepBackward, and on StepBackward(i) for i <= len(events).
C32_OtherCallsKeepCursor ==
    [][(/\ WithinLog(events, currentIdx)
        /\ last'.op = "StepBackward" => last'.arg <= Len(events)) =>
           WithinLog(events', currentIdx')]_vars

\* C33: in a run of LoadEvents followed only by replays (ReplayForward,
\* ReplayUntilBreakpoint), each event's side effects are applied once and in
\* index order, those of the event a breakpoint stops at included: with the
\* cursor at i the reconstructed state is that of processing events[0..i]
\* from the initial state.  LoadEvents establishes this and every replay
\* keeps it.
C33_ReplayedStateIsPrefixState ==
    [][/\ last'.op = "LoadEvents" =>
              /\ currentIdx' = -1
              /\ ConcurrencyState(Replayer') = StateAt(events', -1)
       /\ (/\ last'.op \in {"ReplayForward", "ReplayUntilBreakpoint"}
           /\ WithinLog(events, currentIdx)
           /\ ConcurrencyState(Replayer) = StateAt(events, currentIdx)) =>
              /\ events' = events
              /\ WithinLog(events', currentIdx')
              /\ ConcurrencyState(Replayer') = StateAt(events', currentIdx')]_vars

\* ReplayUntilBreakpoint has returned at a breakpoint on a goroutine switch in
\* the middle of a log, and the switch has made another goroutine active.
C33_Witness ==
    /\ last.op = "ReplayUntilBreakpoint" /\ last.hit
    /\ Len(events) = 2 /\ currentIdx = 0
    /\ EventAt(events, 0).Type = GoroutineSwitch
    /\ activeGoroutine # 1
    /\ ConcurrencyState(Replayer) = StateAt(events, 0)

\* The goroutines of the map that are marked running.
RunningGoroutines == {g \in DOMAIN goroutines : goroutines[g].Running}

\* C34: no goroutine other than active_goroutine is marked running, after
\* any sequence of processed create and switch events.
C34_OnlyActiveRuns == RunningGoroutines \subseteq {activeGoroutine}

\* A log without creations whose switches all leave from the active
\* goroutine keeps a single running goroutine: the replays of the logs made
\* of "Goroutine switch from 1 to 1" and channel events.
C34_SelfSwitchesKeepOne ==
    (\A i \in 1..Len(events) :
         events[i] \in {GoroutineSwitchEvent(1, 1)}
                       \cup {e \in Vocabulary : e.Type = ChannelOperation}) =>
        RunningGoroutines \subseteq {activeGoroutine}

\* C35: after LoadEvents the goroutine named by active_goroutine is in the
\* goroutine map and is marked running, whatever the events (switches whose
\* source is not the active goroutine, self-switches, details that do not
\* parse).
C35_ActiveGoroutineRuns ==
    EventsLoaded =>
        /\ activeGoroutine \in DOMAIN goroutines
        /\ goroutines[activeGoroutine].Running

\* A self-switch of the active goroutine has been processed.
C35_Witness ==
    /\ LastWasReplay
    /\ currentIdx >= 0 /\ currentIdx < Len(events)
    /\ \E g \in GoroutineIds :
          /\ EventAt(events, currentIdx) = GoroutineSwitchEvent(g, g)
          /\ activeGoroutine = g
          /\ StateAt(events, currentIdx - 1).activeGoroutine = g

\* C36: ReplayToEventIndex and StepBackward move the cursor only: they leave
\* the event list, the goroutine map, the channel map and active_goroutine
\* as they were, and a StepBackward that fails leaves current_index as well.
C36_CursorMovesOnly ==
    [][last'.op \in {"ReplayToEventIndex", "StepBackward"} =>
           /\ UNCHANGED <<events, goroutines, channels, activeGoroutine>>
           /\ (last'.op = "StepBackward" /\ last'.err) => UNCHANGED currentIdx]_vars

\* StepBackward has failed with the cursor at index 1 of a replayed log that
\* made a second goroutine, and the cursor is still at 1.
C36_Witness ==
    /\ last.op = "StepBackward" /\ last.err
    /\ last.from = 1 /\ currentIdx = 1
    /\ Cardinality(DOMAIN goroutines) > 1

-----------------------------------------------------------------------------
(* The writer after GetEvents *)

\* C39: every GetEvents call on a file recorder, one that cannot open the
\* file and returns no events included, leaves the recorder with an open
\* compression writer, so that a RecordEvent after it can append to the log.
C39_GetEventsLeavesWriterOpen ==
    last.op = "GetEvents" => ~fr.writerClosed

\* A GetEvents that opens the file leaves an open writer, and so does every
\* GetEvents of a recorder without compression.
C39_ReadableFileReopensWriter ==
    (last.op = "GetEvents" /\ (~last.err \/ fr.compressionType = NoCompression))
        => ~fr.writerClosed

\* A RecordEvent on a recorder whose writer a GetEvents left closed returns
\* an error and appends nothing.
C39_ClosedWriterRejects ==
    [][(last'.op = "RecordEvent" /\ fr.writerClosed) =>
           (last'.err /\ disk' = disk /\ fr' = fr)]_vars

-----------------------------------------------------------------------------
(* Breakpoint identifiers *)

\* The calls that create a breakpoint.
AddCalls == {"AddBreakpoint", "AddWatchpoint"}

\* C37: breakpoint IDs are unique and strictly increasing in creation order
\* across AddBreakpoint and AddWatchpoint, from 1 on, and an ID is not given
\* again after RemoveBreakpoint.  After every step the IDs in the list are at
\* least 1, increase strictly along the list and lie below the next ID; the
\* next ID never decreases; and a call that creates a breakpoint gives it the
\* next ID, which is above every ID in the list.
C37_IdsUniqueIncreasing ==
    [][/\ \A i \in 1..Len(breakpoints') :
              /\ 1 <= breakpoints'[i].ID /\ breakpoints'[i].ID < nextID'
              /\ \A j \in 1..(i - 1) : breakpoints'[j].ID < breakpoints'[i].ID
       /\ nextID' >= nextID
       /\ (last'.op \in AddCalls /\ ~last'.err) =>
              /\ last'.bp.ID = nextID /\ nextID' = nextID + 1
              /\ breakpoints' = Append(breakpoints, last'.bp)
              /\ \A i \in 1..Len(breakpoints) :
                     breakpoints[i].ID < last'.bp.ID]_vars

\* A watchpoint was created with ID 2 when the list held no breakpoint any
\* more: it is the only one in the list, and ID 1 was not given again.
C37_Witness ==
    /\ last.op = "AddWatchpoint" /\ ~last.err /\ last.bp.ID = 2
    /\ Len(breakpoints) = 1
    /\ breakpoints[1].ID = 2 /\ breakpoints[1].Expression = <<"x">>
    /\ nextID = 3

\* C38: an AddBreakpoint or AddWatchpoint call that returns an error leaves
\* the manager as it was: no breakpoint is added and no ID is used up.
C38_FailedAddLeavesManager ==
    [][(last'.op \in AddCalls /\ last'.err) => UNCHANGED managerVars]_vars

\* A call that returns an error adds no breakpoint, and an AddWatchpoint that
\* returns an error leaves the next ID as well.
C38_FailedAddKeepsList ==
    [][(last'.op \in AddCalls /\ last'.err) =>
           /\ UNCHANGED breakpoints
           /\ last'.op = "AddWatchpoint" => UNCHANGED nextID]_vars

-----------------------------------------------------------------------------
(* The envelopes events() accepts *)

\* C40: with integrity checking enabled in the reader's options, every event
\* events() returns comes from an envelope whose hmac is not empty and
\* verifies under the integrity key.
C40_AcceptedCarriesVerifiedHMAC ==
    LET lines == StoredLines
    IN  \A i \in 1..Len(lines) :
            (/\ sfr.file = "closed"
             /\ sfr.securityOpts.EnableIntegrityCheck
             /\ ~Skips(lines[i], sfr.securityOpts)) =>
                LET se == UnmarshalSecure(lines[i]).se
                IN  /\ Len(se.HMAC) > 0
                    /\ VerifyHMAC(Marshal(se.Event),
                                  sfr.securityOpts.IntegrityKey, se.HMAC)

\* An accepted envelope whose hmac is not empty carries one that verifies.
C40_NonEmptyHMACVerified ==
    LET lines == StoredLines
    IN  \A i \in 1..Len(lines) :
            (/\ sfr.file = "closed"
             /\ sfr.securityOpts.EnableIntegrityCheck
             /\ ~Skips(lines[i], sfr.securityOpts)
             /\ Len(UnmarshalSecure(lines[i]).se.HMAC) > 0) =>
                VerifyHMAC(Marshal(UnmarshalSecure(lines[i]).se.Event),
                           sfr.securityOpts.IntegrityKey,
                           UnmarshalSecure(lines[i]).se.HMAC)

=============================================================================
